---- MODULE Spec2Model ----
(***************************************************************************)
(* Model of the perception-to-animation pipeline of animated_doodle:       *)
(* VisemeEngine, AvatarStateEngine, FaceTracker, AvatarRenderer,           *)
(* MorphTargetAnimator and AudioAnalyzer.                                  *)
(*                                                                         *)
(* Units: audio features are percentages (0.05 is 5), intensities and      *)
(* openness values are per mille (0.4 is 400), times are milliseconds,     *)
(* the raw transition progress is a percentage and the eased progress is   *)
(* in millionths (1.0 is 1000000), which makes the cubic easing exact.     *)
(***************************************************************************)
EXTENDS Integers, Sequences, FiniteSets, TLC

VARIABLES
    now,                 \* the clock read by performance.now() / Date.now()
    \* ---- VisemeEngine fields
    currentViseme, previousViseme, transitionProgress, lastTransitionTime,
    visemeHoldFrames, volumeHistory,
    \* ---- observation of the determineViseme calls
    ret,                 \* VisemeState returned by the latest call
    sinceChange,         \* calls since the returned `current` last changed
    silentRun,           \* length of the current run of calls with volume < 0.05
    feed,                \* "loud" once every call gets the loud bassy vector
    selected,            \* the arguments and the result of the latest selectViseme
    op,                  \* name of the latest operation
    \* ---- SpeechIntegrator fields
    recognition,         \* TRUE when the browser offers a SpeechRecognition API
    isSpeaking, lastSpeechTime,
    recognizer,          \* the recognition session of the browser and the
                         \* end events it has queued for onend
    lastResultAt,        \* the clock at the latest result event, -1 before any
    \* ---- AvatarStateEngine fields
    currentFaceState,
    \* ---- observation of the getState calls
    finalState,          \* AvatarState returned by the latest getState
    agg,                 \* what the latest getState read (speech signal,
                         \* volume) and the parity of the number of calls
    \* ---- FaceTracker fields
    lastResults,
    \* ---- renderer.ts: init's locals
    currentMode,
    \* ---- AvatarRenderer fields and what draw() put on the canvas
    state, smoothState, drawn, frameCount,
    \* ---- Avatar3DRenderer: the default face group
    faceGroup,
    \* ---- Avatar3DRenderer.animator (a MorphTargetAnimator or null) and
    \* the viseme and the method of its latest applyViseme call
    animator, lastApply,
    \* ---- AudioAnalyzer: its fields, the start() calls under way, the
    \* tracks of the streams delivered, the latest getDetailedAnalysis result
    analyzer, startCalls, tracks, analysis,
    \* ---- renderer.ts: where init() stands, the status line it shows and
    \* the camera tracker.start() asked for
    initPc, status, camera,
    \* ---- renderer.ts: the recording buttons (TRUE is disabled), the blob
    \* of the last recording (0 is null), the start handlers awaiting
    \* resume(), the promises of the recorder.stop() calls, the interval
    buttons, recordedBlob, startPending, stopCalls, recordingInterval,
    \* ---- Recorder fields and the MediaRecorders it has created
    recorder, mediaRecorders,
    \* ---- the export: where btnExport.onclick stands, the save-video
    \* request of the main process, the ffmpeg processes it has spawned,
    \* the result of the save-video-webm request, the exports made
    exportPc, saveVideo, encoders, webmResult, exports,
    \* ---- FaceDetector3D: the object of the latest detectFace call and
    \* the landmarks it returned
    detection,
    \* ---- Avatar3DRenderer: its model, its landmarks, the model its
    \* animator was built for, the loadModel call under way, the latest
    \* updateState argument
    avatar3D

engineVars == <<currentViseme, previousViseme, transitionProgress,
                lastTransitionTime, visemeHoldFrames, volumeHistory>>
obsVars == <<ret, sinceChange, silentRun, feed, selected>>
speechVars == <<recognition, isSpeaking, lastSpeechTime, recognizer, lastResultAt>>
aggVars == <<currentFaceState, finalState, agg>>
renderVars == <<state, smoothState, drawn, frameCount>>
pipeVars == <<lastResults, currentMode, faceGroup>>
animVars == <<animator, lastApply>>
audioVars == <<analyzer, startCalls, tracks, analysis>>
initVars == <<initPc, status, camera>>
\* what the actions of the animator and of the analyzer leave alone
recordVars == <<buttons, recordedBlob, startPending, stopCalls,
                recordingInterval, recorder, mediaRecorders>>
exportVars == <<exportPc, saveVideo, encoders, webmResult, exports>>
coreVars == <<now, engineVars, obsVars, speechVars, aggVars, renderVars,
              pipeVars, initVars, recordVars, exportVars, detection, avatar3D>>
\* what the actions of the engines, the tracker and the 2D renderer leave
\* alone
extVars == <<animVars, audioVars, initVars, recordVars, exportVars,
             detection, avatar3D>>
extVarsButDetection == <<animVars, audioVars, initVars, recordVars,
                         exportVars, avatar3D>>
vars == <<now, engineVars, obsVars, op, speechVars, aggVars, renderVars,
          pipeVars, animVars, audioVars, initVars, recordVars, exportVars,
          detection, avatar3D>>

----------------------------------------------------------------------------
(* Bounds *)
MaxClock == 160
MaxCoarseClock == 400
MaxFrames == 3
MaxSince == 3
MaxSilentRun == 3
MaxCalls == 2
MaxPending == 2
MaxRecorders == 2
MaxExports == 1
MaxVertices == 3
MaxLoads == 2
MaxChunks == 2
MaxEndEvents == 2
MaxSpeechClock == 310

FineSteps == {40}
CoarseSteps == {200}
SpeechSteps == {150, 151}

\* Date.now() counts from the epoch, performance.now() from page load
DateOrigin == 5000

----------------------------------------------------------------------------
(* VisemeEngine.ts *)
Viseme == {"REST", "AA", "E", "O", "U", "FV", "MBP"}

transitionDuration == 100
\* a hold of a single frame
minHoldFramesOne == 2 - 1
minHoldFrames == 2
maxHistoryLength == 5

Min(a, b) == IF a < b THEN a ELSE b
Max(a, b) == IF a > b THEN a ELSE b

RECURSIVE SumSeq(_)
SumSeq(s) == IF s = <<>> THEN 0 ELSE Head(s) + SumSeq(Tail(s))

\* volumeHistory.push(volume); if (length > maxHistoryLength) shift()
PushVolume(hist, v) ==
    LET h == Append(hist, v)
    IN IF Len(h) > maxHistoryLength THEN Tail(h) ELSE h

\* selectViseme, on the pair (audioData, volumeChange).  volumeChange is
\* volume - sum/len; the test volumeChange > 0.15 is kept exact by comparing
\* volume*len - sum with 15*len.
\* the volume itself taken for volumeChange
VolumeSpikeNoAverage(a, hist) ==
    a.volume * Len(hist) > 15 * Len(hist)

VolumeSpike(a, hist) ==
    a.volume * Len(hist) - SumSeq(hist) > 15 * Len(hist)

\* the decision list with the rounded rule tried before the wide open one
selectVisemeRoundedFirst(a, hist) ==
    IF a.volume < 5 THEN "REST"
    ELSE IF VolumeSpike(a, hist) /\ a.lowFreq > 60 /\ a.zeroCrossingRate < 30
         THEN "MBP"
    ELSE IF a.zeroCrossingRate > 60 /\ a.highFreq > 50 THEN "FV"
    ELSE IF a.volume > 40 /\ a.midFreq > 50 /\ a.lowFreq > 30 THEN "O"
    ELSE IF a.volume > 60 /\ a.lowFreq > 50 /\ a.zeroCrossingRate < 40 THEN "AA"
    ELSE IF a.volume > 25 /\ a.volume < 50 /\ a.midFreq > 40 THEN "U"
    ELSE IF a.highFreq > 40 /\ a.volume > 30 THEN "E"
    ELSE IF a.volume > 10 THEN "AA"
    ELSE "REST"

\* the decision list without its silence rule
selectVisemeNoSilence(a, hist) ==
    IF VolumeSpike(a, hist) /\ a.lowFreq > 60 /\ a.zeroCrossingRate < 30
    THEN "MBP"
    ELSE IF a.zeroCrossingRate > 60 /\ a.highFreq > 50 THEN "FV"
    ELSE IF a.volume > 60 /\ a.lowFreq > 50 /\ a.zeroCrossingRate < 40 THEN "AA"
    ELSE IF a.volume > 40 /\ a.midFreq > 50 /\ a.lowFreq > 30 THEN "O"
    ELSE IF a.volume > 25 /\ a.volume < 50 /\ a.midFreq > 40 THEN "U"
    ELSE IF a.highFreq > 40 /\ a.volume > 30 THEN "E"
    ELSE IF a.volume > 10 THEN "AA"
    ELSE "REST"

selectViseme(a, hist) ==
    IF a.volume < 5 THEN "REST"
    ELSE IF VolumeSpike(a, hist) /\ a.lowFreq > 60 /\ a.zeroCrossingRate < 30
         THEN "MBP"
    ELSE IF a.zeroCrossingRate > 60 /\ a.highFreq > 50 THEN "FV"
    ELSE IF a.volume > 60 /\ a.lowFreq > 50 /\ a.zeroCrossingRate < 40 THEN "AA"
    ELSE IF a.volume > 40 /\ a.midFreq > 50 /\ a.lowFreq > 30 THEN "O"
    ELSE IF a.volume > 25 /\ a.volume < 50 /\ a.midFreq > 40 THEN "U"
    ELSE IF a.highFreq > 40 /\ a.volume > 30 THEN "E"
    ELSE IF a.volume > 10 THEN "AA"
    ELSE "REST"

\* easeInOutCubic on a percentage t, result in millionths:
\*   t < 0.5 ? 4t^3 : 1 - (-2t+2)^3/2
\* the easing with the "1 -" of its second branch dropped
easeInOutCubicNoComplement(t) ==
    IF t < 50 THEN 4 * t * t * t
    ELSE ((200 - 2 * t) * (200 - 2 * t) * (200 - 2 * t)) \div 2

easeInOutCubic(t) ==
    IF t < 50 THEN 4 * t * t * t
    ELSE 1000000 - ((200 - 2 * t) * (200 - 2 * t) * (200 - 2 * t)) \div 2

\* intensity = Math.min(1.0, volume * 1.5), per mille
Intensity(a) == Min(1000, a.volume * 15)

\* the hold branch of determineViseme (lines 62-64)
Holding == visemeHoldFrames < minHoldFrames
\* the adoption branch (lines 65-72)
Adopts(target) == ~Holding /\ target # currentViseme

NewCurrent(target) == IF Adopts(target) THEN target ELSE currentViseme
\* previous overwritten whenever the target differs, hold or not
NewPreviousNoHold(target) ==
    IF target # currentViseme THEN currentViseme ELSE previousViseme
NewPrevious(target) == IF Adopts(target) THEN currentViseme ELSE previousViseme
NewHold(target) ==
    IF Holding THEN visemeHoldFrames + 1
    ELSE IF target # currentViseme THEN 0 ELSE visemeHoldFrames
NewLastTransitionTime(target) ==
    IF Adopts(target) THEN now ELSE lastTransitionTime
\* lines 70 and 75-78
NewProgress(target) ==
    LET p == IF Adopts(target) THEN 0 ELSE transitionProgress
    IN IF p < 100
       THEN Min(100, ((now - NewLastTransitionTime(target)) * 100)
                         \div transitionDuration)
       ELSE p

\* the VisemeState determineViseme returns for input a
VisemeResult(a) ==
    LET hist == PushVolume(volumeHistory, a.volume)
        target == selectViseme(a, hist)
    IN [current |-> NewCurrent(target),
        previous |-> NewPrevious(target),
        transitionProgress |-> easeInOutCubic(NewProgress(target)),
        intensity |-> Intensity(a)]

\* the effect of determineViseme on the engine's fields
EngineStep(a) ==
    LET hist == PushVolume(volumeHistory, a.volume)
        target == selectViseme(a, hist)
    IN /\ volumeHistory' = hist
       /\ currentViseme' = NewCurrent(target)
       /\ previousViseme' = NewPrevious(target)
       /\ visemeHoldFrames' = NewHold(target)
       /\ lastTransitionTime' = NewLastTransitionTime(target)
       /\ transitionProgress' = NewProgress(target)

\* what an observer of the calls records
Observe(a, r) ==
    /\ ret' = r
    /\ sinceChange' = IF r.current # ret.current THEN 0
                      ELSE Min(MaxSince, sinceChange + 1)
    /\ silentRun' = IF a.volume < 5 THEN Min(MaxSilentRun, silentRun + 1)
                    ELSE 0
    /\ selected' = [audioData |-> a,
                    hist |-> PushVolume(volumeHistory, a.volume),
                    viseme |-> selectViseme(a, PushVolume(volumeHistory, a.volume))]
    /\ UNCHANGED feed

Features(v, l, m, h, z) ==
    [volume |-> v, lowFreq |-> l, midFreq |-> m, highFreq |-> h,
     zeroCrossingRate |-> z]

ZeroFeatures == Features(0, 0, 0, 0, 0)

\* feature vectors fed to the engine: a quiet but hissing frame (a fricative
\* but for its volume), a loud bassy frame (a plosive when it follows quiet
\* frames, wide open otherwise), and loud rounded, fricative and stretched
\* frames
AudioInputs ==
    { Features(4, 80, 60, 60, 70),
      Features(70, 80, 0, 0, 10),
      Features(70, 40, 60, 0, 50),
      Features(70, 0, 0, 60, 70),
      Features(70, 0, 0, 50, 50) }

----------------------------------------------------------------------------
(* SpeechIntegrator (part_001, lines 426-481) *)

DateNow == now + DateOrigin

speechDecay == 300

\* getIsSpeaking() clearing the flag from 300 ms on
GetIsSpeakingFrom300 ==
    IF DateNow - lastSpeechTime >= speechDecay THEN FALSE ELSE isSpeaking

\* getIsSpeaking(): the value returned, which is also stored in isSpeaking
GetIsSpeaking ==
    IF DateNow - lastSpeechTime > speechDecay THEN FALSE ELSE isSpeaking

\* SpeechRecognition.start() of the browser: it throws InvalidStateError
\* when the session is already started and starts one otherwise
recognitionStart(r) ==
    IF r.state = "running"
    THEN [recognizer |-> r, threw |-> TRUE]
    ELSE [recognizer |-> [r EXCEPT !.state = "running"], threw |-> FALSE]

\* SpeechIntegrator.start(): the exception is caught and logged
start(r) ==
    IF recognition THEN recognitionStart(r).recognizer ELSE r

\* onend with the restart left out
onendNoRestart(r) == r

\* recognition.onend: the restart, whose exception is ignored
onend(r) ==
    IF recognition THEN recognitionStart(r).recognizer ELSE r

\* the fields after the constructor, and the session after the start()
\* call the AvatarStateEngine constructor makes (part_002, line 37)
InitSpeech ==
    /\ recognition \in BOOLEAN
    /\ isSpeaking = FALSE
    /\ lastSpeechTime = 0
    /\ recognizer = start([state |-> "inactive", endEvents |-> 0])
    /\ lastResultAt = -1

\* recognition.onresult
OnResult ==
    /\ recognition
    /\ recognizer.state = "running"
    /\ isSpeaking' = TRUE
    /\ lastSpeechTime' = DateNow
    /\ lastResultAt' = now
    /\ op' = "onresult"
    /\ UNCHANGED <<extVars, now, recognition, recognizer, engineVars, obsVars,
                   aggVars, renderVars, pipeVars>>

\* SpeechIntegrator.start() called again
SpeechStart ==
    /\ recognizer' = start(recognizer)
    /\ op' = IF recognition /\ recognitionStart(recognizer).threw
             THEN "start: already started" ELSE "speechStart"
    /\ UNCHANGED <<extVars, now, recognition, isSpeaking, lastSpeechTime,
                   lastResultAt, engineVars, obsVars, aggVars, renderVars,
                   pipeVars>>

\* the browser ends the session, on completion or after an error, and
\* queues the end event
RecognitionEnds(error) ==
    /\ recognizer.state = "running"
    /\ recognizer.endEvents < MaxEndEvents
    /\ recognizer' = [state |-> "ended", endEvents |-> recognizer.endEvents + 1]
    /\ op' = IF error THEN "recognition error" ELSE "recognition end"
    /\ UNCHANGED <<extVars, now, recognition, isSpeaking, lastSpeechTime,
                   lastResultAt, engineVars, obsVars, aggVars, renderVars,
                   pipeVars>>

\* an end event is dispatched to recognition.onend
OnEnd ==
    /\ recognizer.endEvents > 0
    /\ recognizer' = onend([recognizer EXCEPT !.endEvents = @ - 1])
    /\ op' = "onend"
    /\ UNCHANGED <<extVars, now, recognition, isSpeaking, lastSpeechTime,
                   lastResultAt, engineVars, obsVars, aggVars, renderVars,
                   pipeVars>>

----------------------------------------------------------------------------
(* AvatarStateEngine (part_002) *)

Undefined == [undefined |-> TRUE]
Null == [null |-> TRUE]
Truthy(v) == v # Undefined /\ v # Null
\* a missing emotion tag (a string, like the tags)
UndefinedTag == "undefined"

DefaultFaceState ==
    [rotation |-> [x |-> 0, y |-> 0, z |-> 0],
     mouth |-> [openness |-> 0, shape |-> "closed"],
     eyes |-> [leftOpen |-> 1000, rightOpen |-> 1000, blink |-> FALSE],
     position |-> [x |-> 500, y |-> 500],
     eyebrows |-> Undefined,
     emotion |-> "neutral"]

\* the condition of the hybrid sync: only the engine's REST is replaced
HybridSyncNoRest(visemeState, isSpeechDetected, a) ==
    isSpeechDetected /\ a.volume < 5

\* the condition of the hybrid sync (line 67)
HybridSync(visemeState, isSpeechDetected, a) ==
    visemeState.current = "REST" /\ isSpeechDetected /\ a.volume < 5

\* the synthesized filler viseme (lines 69-75); filler is FV or O according
\* to the sign of sin(Date.now() / 150)
FillerViseme(filler) ==
    [current |-> filler, previous |-> "REST",
     transitionProgress |-> 1000000, intensity |-> 400]

\* the legacy mouth state derived from the volume (lines 93-104)
AudioMouth(mouth, a) ==
    IF a.volume > 8
    THEN [openness |-> Max(mouth.openness, Min(a.volume * 15, 1000)),
          shape |-> IF a.volume > 40 THEN "open"
                    ELSE IF a.volume > 15 THEN "half" ELSE "closed"]
    ELSE mouth

\* the AvatarState getState returns when the analyzer yields a, for the
\* stored face state face
StateOf(face, a, filler) ==
    LET vs == VisemeResult(a)
        emitted == IF HybridSync(vs, GetIsSpeaking, a)
                   THEN FillerViseme(filler) ELSE vs
    IN [rotation |-> face.rotation,
        mouth |-> AudioMouth(face.mouth, a),
        eyes |-> face.eyes,
        position |-> face.position,
        eyebrows |-> face.eyebrows,
        emotion |-> face.emotion,
        viseme |-> emitted]

\* the effects of getState() on a stored face state face: the engine is
\* stepped, the speech flag is refreshed, and, state being a shallow copy,
\* the mouth of the stored FaceState is the object that lines 95-102 write
GetStateOn(face, a, filler) ==
    /\ EngineStep(a)
    /\ Observe(a, VisemeResult(a))
    /\ isSpeaking' = GetIsSpeaking
    /\ finalState' = StateOf(face, a, filler)
    /\ agg' = [speech |-> GetIsSpeaking, volume |-> a.volume,
               parity |-> 1 - agg.parity]
    /\ currentFaceState' = [face EXCEPT !.mouth = AudioMouth(face.mouth, a)]
    /\ UNCHANGED <<now, recognition, lastSpeechTime, recognizer, lastResultAt>>

InitAgg ==
    /\ currentFaceState = DefaultFaceState
    /\ finalState = Undefined
    /\ agg = [speech |-> FALSE, volume |-> 0, parity |-> 0]

\* what AudioAnalyzer.getDetailedAnalysis hands to getState: zeros (the
\* analyzer is not listening, or hears nothing) and a loud bassy frame
AnalyzerSamples ==
    { ZeroFeatures, Features(70, 80, 0, 0, 10) }

\* the same with a microphone that is not listening
SilentSamples == { ZeroFeatures }

Fillers == {"FV", "O"}

\* AvatarStateEngine.getState()
GetState(a, filler) ==
    /\ GetStateOn(currentFaceState, a, filler)
    /\ op' = "getState"
    /\ UNCHANGED <<extVars, renderVars, pipeVars>>

----------------------------------------------------------------------------
(* FaceTracker (part_003) *)

Abs(x) == IF x < 0 THEN -x ELSE x

\* Math.atan2 in milliradians, for the slopes the frames below have: level
\* ears give 0, a gentle slope is its own tangent
Atan2(dy, dx) ==
    IF dy = 0 THEN (IF dx >= 0 THEN 0 ELSE 3142)
    ELSE (dy * 1000) \div dx

\* results without a face
NoFace == [multiFaceLandmarks |-> <<>>]

\* results with one face; the landmarks onResults reads, by their index, in
\* per mille of the frame
Landmarks(noseX, lipGap, leftGap, rightGap, browGap) ==
    [multiFaceLandmarks |-> <<
       [p1 |-> [x |-> noseX, y |-> 500],
        p234 |-> [x |-> 300, y |-> 500],
        p454 |-> [x |-> 700, y |-> 500],
        p152 |-> [x |-> 500, y |-> 800],
        p10 |-> [x |-> 500, y |-> 200],
        p13 |-> [x |-> 500, y |-> 600],
        p14 |-> [x |-> 500, y |-> 600 + lipGap],
        p61 |-> [x |-> 440, y |-> 600],
        p291 |-> [x |-> 560, y |-> 600],
        p159 |-> [x |-> 410, y |-> 400],
        p145 |-> [x |-> 410, y |-> 400 + leftGap],
        p33 |-> [x |-> 380, y |-> 400],
        p133 |-> [x |-> 440, y |-> 400],
        p386 |-> [x |-> 590, y |-> 400],
        p374 |-> [x |-> 590, y |-> 400 + rightGap],
        p362 |-> [x |-> 560, y |-> 400],
        p263 |-> [x |-> 620, y |-> 400],
        p65 |-> [x |-> 410, y |-> 400 - browGap],
        p295 |-> [x |-> 590, y |-> 400 - browGap]] >>]

HasFace(results) == Len(results.multiFaceLandmarks) > 0

blinkThreshold == 200

\* getEyeOpenness (lines 140-144)
getEyeOpenness(top, bottom, left, right) ==
    (Abs(top.y - bottom.y) * 1000) \div Abs(left.x - right.x)

\* a blink reported as soon as one eye is below the threshold
isBlinkingEither(leftOpenness, rightOpenness) ==
    leftOpenness < blinkThreshold \/ rightOpenness < blinkThreshold

\* isBlinking (line 152)
isBlinking(leftOpenness, rightOpenness) ==
    leftOpenness < blinkThreshold /\ rightOpenness < blinkThreshold

\* the FaceState onResults hands to onStateChange (lines 106-181)
FaceStateOf(results) ==
    LET landmarks == results.multiFaceLandmarks[1]
        nose == landmarks.p1
        leftEar == landmarks.p234
        rightEar == landmarks.p454
        chin == landmarks.p152
        top == landmarks.p10
        faceWidth == Abs(rightEar.x - leftEar.x)
        noseToLeft == Abs(nose.x - leftEar.x)
        yaw == ((noseToLeft * 1000) \div faceWidth - 500) * 2
        faceHeight == Abs(chin.y - top.y)
        noseToTop == Abs(nose.y - top.y)
        pitch == ((noseToTop * 1000) \div faceHeight - 500) * 2
        roll == Atan2(rightEar.y - leftEar.y, rightEar.x - leftEar.x)
        mouthHeight == Abs(landmarks.p14.y - landmarks.p13.y)
        mouthWidth == Abs(landmarks.p61.x - landmarks.p291.x)
        openness == (mouthHeight * 1000) \div mouthWidth
        leftOpenness == getEyeOpenness(landmarks.p159, landmarks.p145,
                                       landmarks.p33, landmarks.p133)
        rightOpenness == getEyeOpenness(landmarks.p386, landmarks.p374,
                                        landmarks.p362, landmarks.p263)
        leftBrowRaised == Max(0, (landmarks.p159.y - landmarks.p65.y) * 10)
        rightBrowRaised == Max(0, (landmarks.p386.y - landmarks.p295.y) * 10)
    IN [rotation |-> [x |-> pitch, y |-> yaw, z |-> roll],
        mouth |-> [openness |-> openness,
                   shape |-> IF openness > 250 THEN "open"
                             ELSE IF openness > 120 THEN "half" ELSE "closed"],
        eyes |-> [leftOpen |-> leftOpenness, rightOpen |-> rightOpenness,
                  blink |-> isBlinking(leftOpenness, rightOpenness)],
        eyebrows |-> [left |-> leftBrowRaised, right |-> rightBrowRaised],
        position |-> [x |-> nose.x, y |-> nose.y],
        emotion |-> UndefinedTag]

\* the frames the landmark provider delivers: no face, a face looking
\* straight with the mouth shut, a face with the mouth open and both eyes
\* closed
LandmarkFrames ==
    { NoFace, Landmarks(500, 12, 18, 18, 0), Landmarks(500, 36, 6, 6, 0) }

\* the eyelid gaps of the frames below: with an eye 60 wide they make an
\* openness of 0.1, 0.183, 0.2 and 0.3
EyeGaps == {6, 11, 12, 18}

\* faces with every pair of eye opennesses
EyeFrames ==
    { Landmarks(500, 12, leftGap, rightGap, 0) :
        leftGap \in EyeGaps, rightGap \in EyeGaps }

InitTracker == lastResults = Null

----------------------------------------------------------------------------
(* AvatarRenderer (src/renderer/engine/AvatarRenderer.ts) *)

InitRenderer ==
    /\ state = [rotation |-> [x |-> 0, y |-> 0, z |-> 0],
                mouth |-> [openness |-> 0, shape |-> "closed"],
                eyes |-> [leftOpen |-> 1000, rightOpen |-> 1000,
                          blink |-> FALSE],
                position |-> [x |-> 500, y |-> 500],
                eyebrows |-> Undefined,
                viseme |-> Null,
                emotion |-> "neutral"]
    /\ smoothState = [rotation |-> [x |-> 0, y |-> 0, z |-> 0],
                      mouth |-> [openness |-> 0, shape |-> "closed"],
                      eyes |-> [leftOpen |-> 1000, rightOpen |-> 1000,
                                blink |-> FALSE],
                      position |-> [x |-> 500, y |-> 500],
                      eyebrows |-> Undefined,
                      viseme |-> Undefined,
                      emotion |-> "neutral"]
    /\ drawn = Null
    /\ frameCount = 0

\* lerp(a, b, t) = a + (b - a) * t, t in percent
lerp(a, b, t) == a + ((b - a) * t) \div 100

\* the smoothing of loop() (lines 151-176); smoothState has no viseme field
\* and loop() copies none into it
Smoothed(sm, st) ==
    [rotation |-> [x |-> lerp(sm.rotation.x, st.rotation.x, 15),
                   y |-> lerp(sm.rotation.y, -st.rotation.y, 15),
                   z |-> lerp(sm.rotation.z, -st.rotation.z, 15)],
     mouth |-> [openness |-> lerp(sm.mouth.openness, st.mouth.openness, 30),
                shape |-> sm.mouth.shape],
     eyes |-> [leftOpen |-> lerp(sm.eyes.leftOpen, st.eyes.leftOpen, 20),
               rightOpen |-> lerp(sm.eyes.rightOpen, st.eyes.rightOpen, 20),
               blink |-> sm.eyes.blink],
     position |-> sm.position,
     eyebrows |->
        IF Truthy(st.eyebrows)
        THEN LET old == IF Truthy(sm.eyebrows) THEN sm.eyebrows
                        ELSE [left |-> 0, right |-> 0]
             IN [left |-> lerp(old.left, st.eyebrows.left, 20),
                 right |-> lerp(old.right, st.eyebrows.right, 20)]
        ELSE sm.eyebrows,
     viseme |-> sm.viseme,
     emotion |-> IF st.emotion # UndefinedTag THEN st.emotion ELSE "neutral"]

\* drawSingleEye (lines 458-472): the closed curve or the open eye
EyeClosed(openness, blink) == blink \/ openness < 150

\* drawVisemeMouth (lines 720-740): the shapes drawn with their opacity
VisemeMouth(visemeState) ==
    IF visemeState.transitionProgress < 1000000
    THEN [kind |-> "viseme",
          shapes |-> << [shape |-> visemeState.previous,
                         alpha |-> 1000000 - visemeState.transitionProgress],
                        [shape |-> visemeState.current,
                         alpha |-> visemeState.transitionProgress] >>]
    ELSE [kind |-> "viseme",
          shapes |-> << [shape |-> visemeState.current, alpha |-> 1000000] >>]

\* draw() (lines 182-288): the eyes and the mouth it puts on the canvas
Draw(sm) ==
    [leftEyeClosed |-> EyeClosed(sm.eyes.leftOpen, sm.eyes.blink),
     rightEyeClosed |-> EyeClosed(sm.eyes.rightOpen, sm.eyes.blink),
     mouth |-> IF Truthy(sm.viseme) THEN VisemeMouth(sm.viseme)
               ELSE [kind |-> "fallback", openness |-> sm.mouth.openness]]

\* AvatarRenderer.updateState(newState)
UpdateStateTo(newState) == state' = newState

UpdateState(newState) ==
    /\ UpdateStateTo(newState)
    /\ op' = "updateState"
    /\ UNCHANGED <<extVars, now, smoothState, drawn, frameCount, engineVars, obsVars,
                   speechVars, aggVars, pipeVars>>

AvatarStateWith(mouth, eyes, viseme) ==
    [rotation |-> [x |-> 0, y |-> 0, z |-> 0],
     mouth |-> mouth,
     eyes |-> eyes,
     position |-> [x |-> 500, y |-> 500],
     eyebrows |-> [left |-> 0, right |-> 0],
     emotion |-> UndefinedTag,
     viseme |-> viseme]

\* states handed to updateState: a half-way transition to AA, a settled REST
\* with a blink, and a state without a viseme
RenderStates ==
    { AvatarStateWith([openness |-> 1000, shape |-> "open"],
                      [leftOpen |-> 300, rightOpen |-> 300, blink |-> FALSE],
                      [current |-> "AA", previous |-> "REST",
                       transitionProgress |-> 500000, intensity |-> 1000]),
      AvatarStateWith([openness |-> 100, shape |-> "closed"],
                      [leftOpen |-> 100, rightOpen |-> 100, blink |-> TRUE],
                      [current |-> "REST", previous |-> "AA",
                       transitionProgress |-> 1000000, intensity |-> 0]),
      AvatarStateWith([openness |-> 300, shape |-> "open"],
                      [leftOpen |-> 300, rightOpen |-> 300, blink |-> FALSE],
                      Undefined) }

\* AvatarRenderer.loop(): one render tick; frameCount counts the ticks (the
\* once-a-second FPS readout that resets it is left out)
Loop ==
    /\ frameCount < MaxFrames
    /\ frameCount' = frameCount + 1
    /\ smoothState' = Smoothed(smoothState, state)
    /\ drawn' = Draw(smoothState')
    /\ op' = "loop"
    /\ UNCHANGED <<extVars, now, state, engineVars, obsVars, speechVars, aggVars,
                   pipeVars>>

----------------------------------------------------------------------------
(* Avatar3DRenderer with its default face (Avatar3DRenderer.ts lines        *)
(* 298-322, DefaultFaceModel.ts lines 292-329)                              *)

InitFaceGroup ==
    faceGroup = [rotation |-> [x |-> 0, y |-> 0, z |-> 0],
                 hair |-> [x |-> 0, y |-> 0],
                 lowerLipY |-> -50,
                 teethVisible |-> FALSE]

\* DefaultFaceModel.applyHeadRotation
applyHeadRotation(group, rotation) ==
    [group EXCEPT !.rotation = [x |-> (rotation.x * 6) \div 10,
                                y |-> (rotation.y * 6) \div 10,
                                z |-> (rotation.z * 3) \div 10],
                  !.hair = [x |-> rotation.x \div 10,
                            y |-> (rotation.y * 5) \div 100]]

\* DefaultFaceModel.animateMouth: the lower lip and the teeth
animateMouth(group, openAmount) ==
    IF openAmount > 20
    THEN [group EXCEPT !.lowerLipY = -50 - (openAmount * 24) \div 100,
                       !.teethVisible = openAmount > 150]
    ELSE [group EXCEPT !.lowerLipY = -50, !.teethVisible = FALSE]

\* avatar3DRenderer.updateState(finalState) followed by
\* updateViseme(finalState.viseme) when the state carries a viseme
Update3D(group, st) ==
    LET rotated == applyHeadRotation(group, st.rotation)
    IN IF Truthy(st.viseme) THEN animateMouth(rotated, st.viseme.intensity)
       ELSE rotated

----------------------------------------------------------------------------
(* renderer.ts: init *)

InitPipe ==
    /\ InitTracker
    /\ currentMode = "2d"
    /\ InitFaceGroup

\* the FaceTracker callback (lines 47-62): updateFaceState, getState, and
\* the routing of the final state to the active renderer
OnStateChange(faceState, a, filler) ==
    /\ GetStateOn(faceState, a, filler)
    /\ IF currentMode = "2d"
       THEN /\ UpdateStateTo(StateOf(faceState, a, filler))
            /\ UNCHANGED faceGroup
       ELSE /\ faceGroup' = Update3D(faceGroup, StateOf(faceState, a, filler))
            /\ UNCHANGED state

\* onResults reporting a neutral face when it sees none
OnResultsNeutral(results, a, filler) ==
    /\ lastResults' = results
    /\ op' = "onResults"
    /\ OnStateChange(IF HasFace(results) THEN FaceStateOf(results)
                     ELSE [DefaultFaceState EXCEPT !.emotion = UndefinedTag],
                     a, filler)
    /\ UNCHANGED <<extVars, smoothState, drawn, frameCount, currentMode>>

\* FaceTracker.onResults(results)
OnResults(results, a, filler) ==
    /\ lastResults' = results
    /\ op' = "onResults"
    /\ IF HasFace(results)
       THEN /\ OnStateChange(FaceStateOf(results), a, filler)
            /\ UNCHANGED <<extVars, smoothState, drawn, frameCount, currentMode>>
       ELSE UNCHANGED <<extVars, now, engineVars, obsVars, speechVars, aggVars,
                        renderVars, currentMode, faceGroup>>

\* the avatar-mode radio buttons (lines 317-334)
SwitchMode(mode) ==
    /\ currentMode' = mode
    /\ op' = "switchMode"
    /\ UNCHANGED <<extVars, now, engineVars, obsVars, speechVars, aggVars, renderVars,
                   lastResults, faceGroup>>

Modes == {"2d", "3d"}

----------------------------------------------------------------------------
(* MorphTargetAnimator (part_004)                                          *)
(*                                                                         *)
(* Coordinates, coefficients, angles, sines and cosines are per mille      *)
(* (1.0 is 1000, 1 radian is 1000); a jaw bone rotation is in millionths   *)
(* of a radian, the exact product of a per-mille coefficient and a         *)
(* per-mille intensity.  Array indices start at 1 where the code's start   *)
(* at 0; a bone index 0 stands for null.                                   *)

\* String.prototype.toLowerCase on the names that occur in morph
\* dictionaries, in morphMap and in skeletons
toLowerCase(s) ==
    CASE s = "mouthClose" -> "mouthclose"
      [] s = "mouthOpen" -> "mouthopen"
      [] s = "jawOpen" -> "jawopen"
      [] s = "mouthSmile" -> "mouthsmile"
      [] s = "MouthSmile" -> "mouthsmile"
      [] s = "mouthStretch" -> "mouthstretch"
      [] s = "mouthFunnel" -> "mouthfunnel"
      [] s = "mouthRound" -> "mouthround"
      [] s = "mouthPucker" -> "mouthpucker"
      [] s = "mouthPout" -> "mouthpout"
      [] s = "mouthLowerDown" -> "mouthlowerdown"
      [] s = "mouthPress" -> "mouthpress"
      [] s = "BrowUp" -> "browup"
      [] s = "Head" -> "head"
      [] s = "LowerJaw" -> "lowerjaw"
      [] s = "Chin_End" -> "chin_end"
      [] OTHER -> s

\* boneName.includes('jaw') || boneName.includes('chin') ||
\* boneName.includes('mandible'), on the lower-cased names above
IsJawName(boneName) == boneName \in {"lowerjaw", "chin_end"}

\* the last bone of the traversal whose name looks like a jaw; 0 for none
RECURSIVE scanForBones(_, _, _)
scanForBones(bones, i, found) ==
    IF i > Len(bones) THEN found
    ELSE scanForBones(bones, i + 1,
                      IF IsJawName(toLowerCase(bones[i].name)) THEN i
                      ELSE found)

\* new MorphTargetAnimator(mesh, landmarks)
NewAnimator(mesh, landmarks) ==
    [mesh |-> mesh,
     landmarks |-> landmarks,
     originalPositions |-> IF Truthy(mesh.position)
                           THEN [array |-> mesh.position.array]
                           ELSE Null,
     jawBone |-> scanForBones(mesh.bones, 1, 0)]

morphMap(viseme) ==
    CASE viseme = "REST" -> <<"mouthClose", "neutral">>
      [] viseme = "AA" -> <<"mouthOpen", "jawOpen", "aa">>
      [] viseme = "E" -> <<"mouthSmile", "ee", "mouthStretch">>
      [] viseme = "O" -> <<"mouthFunnel", "oh", "mouthRound">>
      [] viseme = "U" -> <<"mouthPucker", "oo", "mouthPout">>
      [] viseme = "FV" -> <<"mouthLowerDown", "ff", "mouthPress">>
      [] viseme = "MBP" -> <<"mouthClose", "mouthPress">>
      [] OTHER -> <<>>

\* dict[targetName] !== undefined: the position of the entry, 0 for none
RECURSIVE Lookup(_, _, _)
Lookup(dict, targetName, i) ==
    IF i > Len(dict) THEN 0
    ELSE IF dict[i].key = targetName THEN i
    ELSE Lookup(dict, targetName, i + 1)

\* Object.keys(dict).find(k => k.toLowerCase() === lower)
RECURSIVE FindKey(_, _, _)
FindKey(dict, lower, i) ==
    IF i > Len(dict) THEN 0
    ELSE IF toLowerCase(dict[i].key) = lower THEN i
    ELSE FindKey(dict, lower, i + 1)

\* the loop over the target names (lines 103-118): the dictionary entry of
\* the first name that matches, exactly or else without regard to case
RECURSIVE MatchTarget(_, _, _)
MatchTarget(dict, targets, t) ==
    IF t > Len(targets) THEN 0
    ELSE IF Lookup(dict, targets[t], 1) # 0 THEN Lookup(dict, targets[t], 1)
    ELSE IF FindKey(dict, toLowerCase(targets[t]), 1) # 0
         THEN FindKey(dict, toLowerCase(targets[t]), 1)
    ELSE MatchTarget(dict, targets, t + 1)

\* Method 1: the mesh afterwards and the boolean returned
applyMorphTargets(mesh, viseme, intensity) ==
    IF ~Truthy(mesh.morphTargetInfluences)
       \/ ~Truthy(mesh.morphTargetDictionary)
    THEN [mesh |-> mesh, applied |-> FALSE]
    ELSE LET dict == mesh.morphTargetDictionary.entries
             reset == [i \in DOMAIN mesh.morphTargetInfluences.array |-> 0]
             m == MatchTarget(dict, morphMap(viseme), 1)
         IN IF m = 0
            THEN [mesh |-> [mesh EXCEPT !.morphTargetInfluences =
                                            [array |-> reset]],
                  applied |-> FALSE]
            ELSE [mesh |-> [mesh EXCEPT !.morphTargetInfluences =
                              [array |-> [reset EXCEPT
                                            ![dict[m].index + 1] = intensity]]],
                  applied |-> TRUE]

jawCoefficient(viseme) ==
    CASE viseme = "AA" -> 500
      [] viseme = "O" -> 300
      [] viseme = "E" -> 150
      [] viseme = "U" -> 200
      [] viseme = "FV" -> 100
      [] OTHER -> 0

\* Method 2: the animator's mesh afterwards and the boolean returned
applyBoneAnimation(an, viseme, intensity) ==
    IF an.jawBone = 0 THEN [mesh |-> an.mesh, applied |-> FALSE]
    ELSE [mesh |-> [an.mesh EXCEPT !.bones[an.jawBone].rotationX =
                                       jawCoefficient(viseme) * intensity],
          applied |-> TRUE]

mouthOpenCoefficient(viseme) ==
    CASE viseme = "AA" -> 250
      [] viseme = "E" -> 50
      [] viseme = "O" -> 150
      [] viseme = "U" -> 100
      [] viseme = "FV" -> 25
      [] OTHER -> 0

mouthWidthCoefficient(viseme) ==
    CASE viseme = "AA" -> 100
      [] viseme = "E" -> 200
      [] viseme = "O" -> -50
      [] viseme = "U" -> -100
      [] OTHER -> 0

\* Math.sqrt rounded down, by Newton's iteration from above
RECURSIVE SqrtFrom(_, _)
SqrtFrom(n, r) ==
    IF r * r <= n THEN r ELSE SqrtFrom(n, (r + n \div r) \div 2)

Sqrt(n) == SqrtFrom(n, n)

\* Math.cos and Math.sin by their Taylor polynomials; the angles that occur
\* are below 0.75 radians, where the error is below 1 per mille
Cos(r) ==
    LET r2 == (r * r) \div 1000
    IN 1000 - r2 \div 2 + (r2 * r2) \div 24000

Sin(r) ==
    LET r2 == (r * r) \div 1000
    IN r - (r2 * r) \div 6000 + (((r2 * r2) \div 1000) * r) \div 120000

\* the loop over landmarks.mouthVertices (lines 205-225)
RECURSIVE MoveMouthVertices(_, _, _, _, _)
MoveMouthVertices(pos, lm, mouthOpenAmount, mouthWidthAmount, k) ==
    IF k > Len(lm.mouthVertices) THEN pos
    ELSE LET idx == lm.mouthVertices[k]
             p == pos[idx]
             dx == p.x - lm.mouthCenter.x
             dy == p.y - lm.mouthCenter.y
             dist == Sqrt(dx * dx + dy * dy)
             falloff == Max(0, 1000 - dist * 5)
             newY == p.y - (mouthOpenAmount * falloff) \div 1000
             newX == p.x + (((dx * mouthWidthAmount) \div 1000) * falloff)
                                \div 1000
         IN MoveMouthVertices([pos EXCEPT ![idx] =
                                   [x |-> newX, y |-> newY, z |-> p.z]],
                              lm, mouthOpenAmount, mouthWidthAmount, k + 1)

\* the loop over landmarks.jawVertices (lines 231-249): cos(angle + r) * dist
\* is dy * cos r - dz * sin r, and sin(angle + r) * dist is
\* dz * cos r + dy * sin r
RECURSIVE RotateJawVertices(_, _, _, _)
RotateJawVertices(pos, lm, jawRotation, k) ==
    IF k > Len(lm.jawVertices) THEN pos
    ELSE LET idx == lm.jawVertices[k]
             p == pos[idx]
             dy == p.y - lm.jawPivot.y
             dz == p.z - lm.jawPivot.z
             newY == lm.jawPivot.y
                       + (dy * Cos(jawRotation) - dz * Sin(jawRotation))
                             \div 1000
             newZ == lm.jawPivot.z
                       + (dz * Cos(jawRotation) + dy * Sin(jawRotation))
                             \div 1000
         IN RotateJawVertices(
                IF dy * dy + dz * dz > 1
                THEN [pos EXCEPT ![idx] = [x |-> p.x, y |-> newY, z |-> newZ]]
                ELSE pos,
                lm, jawRotation, k + 1)

\* Method 3 without the reset to the original positions
applyVertexDeformationNoReset(an, viseme, intensity) ==
    IF ~Truthy(an.mesh) \/ ~Truthy(an.landmarks)
       \/ ~Truthy(an.originalPositions)
    THEN an.mesh
    ELSE LET mouthOpenAmount ==
                 (mouthOpenCoefficient(viseme) * intensity) \div 1000
             mouthWidthAmount ==
                 (mouthWidthCoefficient(viseme) * intensity) \div 1000
             moved == MoveMouthVertices(an.mesh.position.array,
                                        an.landmarks, mouthOpenAmount,
                                        mouthWidthAmount, 1)
         IN [an.mesh EXCEPT !.position =
                [array |-> RotateJawVertices(moved, an.landmarks,
                                             mouthOpenAmount * 3, 1)]]

\* Method 3: the animator's mesh afterwards
applyVertexDeformation(an, viseme, intensity) ==
    IF ~Truthy(an.mesh) \/ ~Truthy(an.landmarks)
       \/ ~Truthy(an.originalPositions)
    THEN an.mesh
    ELSE LET mouthOpenAmount ==
                 (mouthOpenCoefficient(viseme) * intensity) \div 1000
             mouthWidthAmount ==
                 (mouthWidthCoefficient(viseme) * intensity) \div 1000
             moved == MoveMouthVertices(an.originalPositions.array,
                                        an.landmarks, mouthOpenAmount,
                                        mouthWidthAmount, 1)
         IN [an.mesh EXCEPT !.position =
                [array |-> RotateJawVertices(moved, an.landmarks,
                                             mouthOpenAmount * 3, 1)]]

\* applyViseme running the bone method after the morph targets have matched
applyVisemeNoReturn(an, visemeState) ==
    LET morph == applyMorphTargets(an.mesh, visemeState.current,
                                   visemeState.intensity)
        bone == applyBoneAnimation([an EXCEPT !.mesh = morph.mesh],
                                   visemeState.current, visemeState.intensity)
    IN IF ~Truthy(an.mesh) \/ ~Truthy(an.landmarks)
       THEN [animator |-> an, strategy |-> "none"]
       ELSE IF bone.applied
       THEN [animator |-> [an EXCEPT !.mesh = bone.mesh],
             strategy |-> IF morph.applied THEN "morph" ELSE "bone"]
       ELSE [animator |->
                 [an EXCEPT !.mesh = applyVertexDeformation(
                                         [an EXCEPT !.mesh = morph.mesh],
                                         visemeState.current,
                                         visemeState.intensity)],
             strategy |-> IF morph.applied THEN "morph" ELSE "vertex"]

\* MorphTargetAnimator.applyViseme: the animator afterwards and the method
\* whose success ended the call
applyViseme(an, visemeState) ==
    LET morph == applyMorphTargets(an.mesh, visemeState.current,
                                   visemeState.intensity)
        bone == applyBoneAnimation([an EXCEPT !.mesh = morph.mesh],
                                   visemeState.current, visemeState.intensity)
    IN IF ~Truthy(an.mesh) \/ ~Truthy(an.landmarks)
       THEN [animator |-> an, strategy |-> "none"]
       ELSE IF morph.applied
       THEN [animator |-> [an EXCEPT !.mesh = morph.mesh],
             strategy |-> "morph"]
       ELSE IF bone.applied
       THEN [animator |-> [an EXCEPT !.mesh = bone.mesh],
             strategy |-> "bone"]
       ELSE [animator |->
                 [an EXCEPT !.mesh = applyVertexDeformation(
                                         [an EXCEPT !.mesh = morph.mesh],
                                         visemeState.current,
                                         visemeState.intensity)],
             strategy |-> "vertex"]

\* a small head: vertex 1 at the mouth centre, vertex 2 on the lip and the
\* jaw, vertex 3 on the chin, vertex 4 on the forehead
HeadPositions ==
    [array |-> << [x |-> 0, y |-> -300, z |-> 100],
                  [x |-> 30, y |-> -340, z |-> 100],
                  [x |-> 0, y |-> -500, z |-> 0],
                  [x |-> 0, y |-> 500, z |-> 0] >>]

HeadLandmarks ==
    [mouthVertices |-> <<1, 2>>,
     jawVertices |-> <<2, 3>>,
     mouthCenter |-> [x |-> 0, y |-> -300, z |-> 100],
     jawPivot |-> [x |-> 0, y |-> -200, z |-> -100]]

\* mouthOpen names AA exactly, MouthSmile names E but for its case
MorphDictionary ==
    [entries |-> << [key |-> "BrowUp", index |-> 0],
                    [key |-> "mouthOpen", index |-> 1],
                    [key |-> "MouthSmile", index |-> 2] >>]

Bone(name) == [name |-> name, rotationX |-> 0]

MeshOf(hasMorphTargets, bones) ==
    [position |-> HeadPositions,
     morphTargetInfluences |-> IF hasMorphTargets THEN [array |-> <<0, 0, 0>>]
                               ELSE Undefined,
     morphTargetDictionary |-> IF hasMorphTargets THEN MorphDictionary
                               ELSE Undefined,
     bones |-> bones,
     rotation |-> [x |-> 0, y |-> 0, z |-> 0]]

\* imported meshes: with and without blend shapes, with and without a rig
\* that has a jaw
Meshes ==
    { MeshOf(m, b) : m \in BOOLEAN,
                     b \in { <<>>, <<Bone("Head")>>,
                             <<Bone("Head"), Bone("LowerJaw")>> } }

VisemeStates ==
    { [current |-> v, previous |-> "REST", transitionProgress |-> 1000000,
       intensity |-> i] : v \in Viseme, i \in {400, 1000} }

InitAnim ==
    /\ animator = Null
    /\ lastApply = Undefined

\* the animator Avatar3DRenderer.loadModel builds for an imported mesh
ConstructAnimator(mesh) ==
    /\ animator' = NewAnimator(mesh, HeadLandmarks)
    /\ lastApply' = Undefined
    /\ op' = "newAnimator"
    /\ UNCHANGED <<coreVars, audioVars>>

\* animator.applyViseme(visemeState)
ApplyViseme(visemeState) ==
    /\ animator # Null
    /\ animator' = applyViseme(animator, visemeState).animator
    /\ lastApply' = [current |-> visemeState.current,
                     intensity |-> visemeState.intensity,
                     strategy |-> applyViseme(animator, visemeState).strategy]
    /\ op' = "applyViseme"
    /\ UNCHANGED <<coreVars, audioVars>>

----------------------------------------------------------------------------
(* AudioAnalyzer (part_006)                                                *)
(*                                                                         *)
(* A start() call is a process that stops at each of its awaits; streams   *)
(* are numbered in the order getUserMedia delivers them, 0 stands for      *)
(* null, and tracks[s] tells whether the tracks of stream s are live.      *)

Calls == 1..MaxCalls

DeviceIds == {"", "usb-mic"}

Threw == [threw |-> TRUE]

InitAudio ==
    /\ analyzer = [audioContext |-> Null, analyser |-> Null,
                   dataArray |-> Null, frequencyData |-> Null,
                   timeData |-> Null, stream |-> 0, isListening |-> FALSE]
    /\ startCalls = [c \in Calls |-> [pc |-> "idle", deviceId |-> ""]]
    /\ tracks = <<>>
    /\ analysis = Undefined

Pending(c) ==
    startCalls[c].pc \in {"enumerateDevices", "getUserMedia", "resume"}

\* the request issued with the tracks of the stream held still running
RequestStreamNoStop(c, deviceId) ==
    /\ tracks' = tracks
    /\ startCalls' = [startCalls EXCEPT ![c] = [pc |-> "getUserMedia",
                                                deviceId |-> deviceId]]
    /\ UNCHANGED analyzer
\* lines 28-39: stop the tracks of the stream held, then ask for a new one
RequestStream(c, deviceId) ==
    /\ tracks' = IF analyzer.stream # 0
                 THEN [tracks EXCEPT ![analyzer.stream] = FALSE]
                 ELSE tracks
    /\ startCalls' = [startCalls EXCEPT ![c] = [pc |-> "getUserMedia",
                                                deviceId |-> deviceId]]
    /\ UNCHANGED analyzer

\* the catch of lines 73-75
Fail(c) ==
    /\ startCalls' = [startCalls EXCEPT ![c].pc = "failed"]
    /\ UNCHANGED <<analyzer, tracks>>

\* lines 58-71, on the fields as they are when the call gets there
Listen(c, an) ==
    /\ analyzer' = [an EXCEPT !.analyser = [fftSize |-> 2048,
                                            source |-> an.stream],
                              !.dataArray = [length |-> 1024],
                              !.frequencyData = [length |-> 1024],
                              !.timeData = [length |-> 1024],
                              !.isListening = TRUE]
    /\ startCalls' = [startCalls EXCEPT ![c].pc = "done"]

\* lines 18-39 of start(deviceId), up to its first await
StartCall(c, deviceId, canEnumerate) ==
    /\ startCalls[c].pc = "idle"
    /\ \A b \in Calls : b < c => startCalls[b].pc # "idle"
    /\ IF deviceId = "" /\ canEnumerate
       THEN /\ startCalls' = [startCalls EXCEPT
                                ![c] = [pc |-> "enumerateDevices",
                                        deviceId |-> deviceId]]
            /\ UNCHANGED <<analyzer, tracks>>
       ELSE RequestStream(c, deviceId)

\* AudioAnalyzer.start(deviceId), up to its first await
Start(c, deviceId, canEnumerate) ==
    /\ StartCall(c, deviceId, canEnumerate)
    /\ op' = "start"
    /\ UNCHANGED <<coreVars, animVars, analysis>>

\* enumerateDevices() settles
EnumerateDevicesSettled(c, fulfilled) ==
    /\ startCalls[c].pc = "enumerateDevices"
    /\ IF fulfilled THEN RequestStream(c, startCalls[c].deviceId) ELSE Fail(c)
    /\ op' = "enumerateDevicesSettled"
    /\ UNCHANGED <<coreVars, animVars, analysis>>

\* getUserMedia() settles; a new AudioContext is suspended or running
GetUserMediaSettled(c, fulfilled, contextState) ==
    /\ startCalls[c].pc = "getUserMedia"
    /\ IF fulfilled
       THEN LET acquired == [analyzer EXCEPT
                               !.stream = Len(tracks) + 1,
                               !.audioContext = [id |-> c,
                                                 state |-> contextState]]
            IN /\ tracks' = Append(tracks, TRUE)
               /\ IF contextState = "suspended"
                  THEN /\ analyzer' = acquired
                       /\ startCalls' = [startCalls EXCEPT ![c].pc = "resume"]
                  ELSE Listen(c, acquired)
       ELSE Fail(c)
    /\ op' = "getUserMediaSettled"
    /\ UNCHANGED <<coreVars, animVars, analysis>>

\* audioContext.resume() settles, for the context this call created
ResumeSettled(c, fulfilled) ==
    /\ startCalls[c].pc = "resume"
    /\ IF fulfilled
       THEN /\ Listen(c, IF analyzer.audioContext.id = c
                         THEN [analyzer EXCEPT
                                 !.audioContext.state = "running"]
                         ELSE analyzer)
            /\ UNCHANGED tracks
       ELSE Fail(c)
    /\ op' = "resumeSettled"
    /\ UNCHANGED <<coreVars, animVars, analysis>>

\* getDetailedAnalysis without its first test: reading the analyser throws
\* when there is none
getDetailedAnalysisUnguarded(an, tr, signal) ==
    IF ~Truthy(an.analyser) \/ ~Truthy(an.frequencyData)
       \/ ~Truthy(an.timeData) \/ ~Truthy(an.audioContext)
    THEN Threw
    ELSE IF tr[an.analyser.source] THEN signal ELSE ZeroFeatures

\* AudioAnalyzer.getDetailedAnalysis: `signal` is what lines 118-193 compute
\* from the microphone; an analyser whose stream has been stopped reads
\* silence
getDetailedAnalysis(an, tr, signal) ==
    IF ~an.isListening \/ ~Truthy(an.analyser) \/ ~Truthy(an.frequencyData)
       \/ ~Truthy(an.timeData)
    THEN ZeroFeatures
    ELSE IF ~Truthy(an.audioContext) THEN Threw
    ELSE IF tr[an.analyser.source] THEN signal ELSE ZeroFeatures

GetDetailedAnalysis(signal) ==
    /\ analysis' = getDetailedAnalysis(analyzer, tracks, signal)
    /\ op' = "getDetailedAnalysis"
    /\ UNCHANGED <<coreVars, animVars, analyzer, startCalls, tracks>>

----------------------------------------------------------------------------
(* renderer.ts: init(), from the construction of the engines (line 62) to   *)
(* the Ready status, and the microphone selector it installs               *)

\* the state after line 62
InitInit ==
    /\ initPc = "constructed"
    /\ status = "Initializing Engine"
    /\ camera = "off"

\* lines 64-70: tracker.start() and audioAnalyzer.start() are called and
\* init awaits both
InitRequest(canEnumerate) ==
    /\ initPc = "constructed"
    /\ StartCall(1, "", canEnumerate)
    /\ camera' = "starting"
    /\ status' = "Requesting Camera & Microphone"
    /\ initPc' = "promiseAll"
    /\ op' = "init"
    /\ UNCHANGED <<now, engineVars, obsVars, speechVars, aggVars, renderVars,
                   pipeVars, animVars, analysis, recordVars, exportVars,
                   detection, avatar3D>>

\* camera.start() settles (FaceTracker.start, part_003 lines 52-61)
CameraSettled(fulfilled) ==
    /\ camera = "starting"
    /\ camera' = IF fulfilled THEN "started" ELSE "failed"
    /\ op' = "cameraSettled"
    /\ UNCHANGED <<now, engineVars, obsVars, speechVars, aggVars, renderVars,
                   pipeVars, animVars, audioVars, initPc, status,
                   recordVars, exportVars, detection, avatar3D>>

\* the promise start() returned is settled; it is never rejected, since the
\* catch of lines 73-75 does not rethrow
StartSettled(c) == startCalls[c].pc \in {"done", "failed"}

\* Promise.all settles (lines 67-70): rejected as soon as tracker.start()
\* is, fulfilled once both promises are; then the catch of lines 383-386 or
\* the enumerateDevices call of line 74
InitPromiseAllSettled ==
    /\ initPc = "promiseAll"
    /\ \/ /\ camera = "failed"
          /\ initPc' = "error"
          /\ status' = "Error"
       \/ /\ camera = "started"
          /\ StartSettled(1)
          /\ initPc' = "enumerateDevices"
          /\ UNCHANGED status
    /\ op' = "init"
    /\ UNCHANGED <<now, engineVars, obsVars, speechVars, aggVars, renderVars,
                   pipeVars, animVars, audioVars, camera, recordVars,
                   exportVars, detection, avatar3D>>

\* line 74 settles: lines 75-112 fill the selector, install its onchange
\* and show Ready, or the catch shows the error
InitEnumerated(fulfilled) ==
    /\ initPc = "enumerateDevices"
    /\ initPc' = IF fulfilled THEN "ready" ELSE "error"
    /\ status' = IF fulfilled THEN "Ready" ELSE "Error"
    /\ op' = "init"
    /\ UNCHANGED <<now, engineVars, obsVars, speechVars, aggVars, renderVars,
                   pipeVars, animVars, audioVars, camera, recordVars,
                   exportVars, detection, avatar3D>>

\* audioSelect.onchange (lines 101-106)
AudioSelectChange(c, deviceId) ==
    /\ initPc = "ready"
    /\ Start(c, deviceId, FALSE)
----------------------------------------------------------------------------
(* Recorder (Recorder.ts) and the recording buttons (renderer.ts lines      *)
(* 208-253).  The buttons start as the handlers leave them after a          *)
(* recording: start enabled, stop and export disabled.                     *)

\* everything but the status line, the recording and the export
nonUiVars == <<now, engineVars, obsVars, speechVars, aggVars, renderVars,
               pipeVars, animVars, audioVars, initPc, camera, detection,
               avatar3D>>

InitRecording ==
    /\ buttons = [start |-> FALSE, stop |-> TRUE, export |-> TRUE]
    /\ recordedBlob = 0
    /\ startPending = 0
    /\ stopCalls = <<>>
    /\ recordingInterval = FALSE
    /\ recorder = [mediaRecorder |-> 0, recordedChunks |-> <<>>]
    /\ mediaRecorders = <<>>

\* btnStart.onclick up to its await of audioAnalyzer.resume()
StartClick ==
    /\ ~buttons.start
    /\ startPending < MaxPending
    /\ startPending' = startPending + 1
    /\ op' = "startClick"
    /\ UNCHANGED <<nonUiVars, status, exportVars, buttons, recordedBlob,
                   stopCalls, recordingInterval, recorder, mediaRecorders>>

\* Recorder.start(): a fresh chunk list and a new MediaRecorder, started
RecorderStart ==
    /\ mediaRecorders' = Append(mediaRecorders,
                                [state |-> "recording", onstop |-> 0,
                                 stopping |-> FALSE,
                                 delivered |-> <<>>, blob |-> Null])
    /\ recorder' = [mediaRecorder |-> Len(mediaRecorders) + 1,
                    recordedChunks |-> <<>>]

\* btnStart.onclick after resume() (lines 218-233); resume() can only be
\* rejected when there is a suspended AudioContext to resume
StartResumed(fulfilled) ==
    /\ startPending > 0
    /\ fulfilled \/ (Truthy(analyzer.audioContext)
                      /\ analyzer.audioContext.state = "suspended")
    /\ startPending' = startPending - 1
    /\ IF fulfilled
       THEN /\ Len(mediaRecorders) < MaxRecorders
            /\ RecorderStart
            /\ buttons' = [start |-> TRUE, stop |-> FALSE, export |-> TRUE]
            /\ recordingInterval' = TRUE
       ELSE UNCHANGED <<recorder, mediaRecorders, buttons, recordingInterval>>
    /\ op' = "startResumed"
    /\ UNCHANGED <<nonUiVars, status, exportVars, recordedBlob, stopCalls>>

\* the interval of lines 227-232
RecordingTick ==
    /\ recordingInterval
    /\ status' = "Recording"
    /\ op' = "recordingTick"
    /\ UNCHANGED <<nonUiVars, recordVars, exportVars>>

\* Recorder.stop(): the state of the promise it returns, with the
\* MediaRecorders afterwards; stopping an inactive MediaRecorder throws
RecorderStop(k) ==
    IF recorder.mediaRecorder = 0
    THEN [promise |-> "rejected", mediaRecorders |-> mediaRecorders]
    ELSE IF mediaRecorders[recorder.mediaRecorder].state = "inactive"
    THEN [promise |-> "rejected",
          mediaRecorders |->
              [mediaRecorders EXCEPT ![recorder.mediaRecorder].onstop = k]]
    ELSE [promise |-> "pending",
          mediaRecorders |->
              [mediaRecorders EXCEPT
                 ![recorder.mediaRecorder].state = "inactive",
                 ![recorder.mediaRecorder].stopping = TRUE,
                 ![recorder.mediaRecorder].onstop = k]]

\* btnStop.onclick up to its await of recorder.stop() (lines 236-243)
StopClick ==
    /\ ~buttons.stop
    /\ Len(stopCalls) < MaxPending
    /\ recordingInterval' = FALSE
    /\ status' = "Stopping recording"
    /\ stopCalls' = Append(stopCalls, RecorderStop(Len(stopCalls) + 1).promise)
    /\ mediaRecorders' = RecorderStop(Len(stopCalls) + 1).mediaRecorders
    /\ op' = "stopClick"
    /\ UNCHANGED <<nonUiVars, exportVars, buttons, recordedBlob, startPending,
                   recorder>>

\* the stop event of a MediaRecorder: its onstop handler fulfils the promise
\* of the stop() call that installed it, unless that promise is settled
RecorderOnStop(r) ==
    /\ r \in DOMAIN mediaRecorders
    /\ mediaRecorders[r].state = "inactive"
    /\ mediaRecorders[r].stopping
    /\ mediaRecorders[r].onstop # 0
    /\ mediaRecorders' =
         [mediaRecorders EXCEPT
            ![r].onstop = 0,
            ![r].stopping = FALSE,
            ![r].blob = IF stopCalls[mediaRecorders[r].onstop] = "pending"
                        THEN [chunks |-> recorder.recordedChunks]
                        ELSE @]
    /\ stopCalls' = IF stopCalls[mediaRecorders[r].onstop] = "pending"
                    THEN [stopCalls EXCEPT
                            ![mediaRecorders[r].onstop] = "fulfilled"]
                    ELSE stopCalls
    /\ op' = "onstop"
    /\ UNCHANGED <<nonUiVars, status, exportVars, buttons, recordedBlob,
                   startPending, recordingInterval, recorder>>

\* mediaRecorder.ondataavailable (lines 59-64) for a chunk that is not
\* empty: a MediaRecorder delivers chunks while it records and a last one
\* between its stop() and its stop event; the handler appends to the list
\* the Recorder holds at that time
DataAvailable(r) ==
    /\ r \in DOMAIN mediaRecorders
    /\ \/ mediaRecorders[r].state = "recording"
       \/ mediaRecorders[r].stopping
    /\ Len(mediaRecorders[r].delivered) < MaxChunks
    /\ LET chunk == [recorder |-> r,
                     n |-> Len(mediaRecorders[r].delivered) + 1]
       IN /\ mediaRecorders' =
                [mediaRecorders EXCEPT ![r].delivered = Append(@, chunk)]
          /\ recorder' = [recorder EXCEPT !.recordedChunks = Append(@, chunk)]
    /\ op' = "dataavailable"
    /\ UNCHANGED <<nonUiVars, status, exportVars, buttons, recordedBlob,
                   startPending, stopCalls, recordingInterval>>

\* btnStop.onclick after recorder.stop() has been fulfilled (lines 243-252)
StopResumed(k) ==
    /\ k \in DOMAIN stopCalls
    /\ stopCalls[k] = "fulfilled"
    /\ stopCalls' = [stopCalls EXCEPT ![k] = "consumed"]
    /\ recordedBlob' = k
    /\ buttons' = [start |-> FALSE, stop |-> TRUE, export |-> FALSE]
    /\ status' = "Recording complete"
    /\ op' = "stopResumed"
    /\ UNCHANGED <<nonUiVars, exportVars, startPending, recordingInterval,
                   recorder, mediaRecorders>>

----------------------------------------------------------------------------
(* The export: btnExport.onclick (renderer.ts lines 255-295) and the        *)
(* save-video and save-video-webm handlers of the main process              *)
(* (dist-electron/index.js lines 41-199)                                    *)

Result(success, message) == [success |-> success, message |-> message]

InitExport ==
    /\ exportPc = "idle"
    /\ saveVideo = [pc |-> "idle", result |-> Null, tempWebm |-> FALSE,
                    resolved |-> 0]
    /\ encoders = <<>>
    /\ webmResult = Null
    /\ exports = 0

\* btnExport.onclick up to the save-video request (lines 255-265), which
\* opens the save dialog of the main process (index.js line 43)
ExportClick ==
    /\ ~buttons.export
    /\ exportPc = "idle"
    /\ exports < MaxExports
    /\ recordedBlob # 0
    /\ exports' = exports + 1
    /\ status' = "Exporting to MP4"
    /\ buttons' = [buttons EXCEPT !.export = TRUE]
    /\ exportPc' = "saveVideo"
    /\ saveVideo' = [pc |-> "dialog", result |-> Null, tempWebm |-> FALSE,
                     resolved |-> 0]
    /\ encoders' = <<>>
    /\ webmResult' = Null
    /\ op' = "exportClick"
    /\ UNCHANGED <<nonUiVars, recordedBlob, startPending, stopCalls,
                   recordingInterval, recorder, mediaRecorders>>

\* resolve(result) of the promise of lines 61-176: the first call settles it
Resolve(sv, result) ==
    [sv EXCEPT !.result = IF sv.result = Null THEN result ELSE sv.result,
               !.resolved = sv.resolved + 1,
               !.pc = "settled"]

\* the ffmpeg processes of one request: the hardware encoder and the
\* software encoder each of its two events can start
EncoderIds == 1..3

\* tryEncode(useGPU): spawn ffmpeg
Spawn(useGPU) == [useGPU |-> useGPU, error |-> FALSE, close |-> "none"]

\* the fallback of lines 135-141 and 157-163: write the temporary file
\* again and start the software encoder, or report the write failure
Fallback(sv, written) ==
    IF written THEN [sv EXCEPT !.tempWebm = TRUE]
    ELSE Resolve(sv, Result(FALSE, "Failed to write temp file"))

\* the save dialog settles (lines 43-60 and the first tryEncode(true))
SaveDialogSettled(chosen, written) ==
    /\ saveVideo.pc = "dialog"
    /\ IF ~chosen
       THEN /\ saveVideo' = [saveVideo EXCEPT !.pc = "settled",
                                              !.result = Result(FALSE, "Canceled")]
            /\ UNCHANGED encoders
       ELSE IF ~written
       THEN /\ saveVideo' = [saveVideo EXCEPT
                               !.pc = "settled",
                               !.result = Result(FALSE,
                                                 "Failed to write temp file")]
            /\ UNCHANGED encoders
       ELSE /\ saveVideo' = [saveVideo EXCEPT !.pc = "encoding",
                                              !.tempWebm = TRUE]
            /\ encoders' = <<Spawn(TRUE)>>
    /\ op' = "saveDialogSettled"
    /\ UNCHANGED <<nonUiVars, status, recordVars, exportPc, webmResult,
                   exports>>

\* ffmpeg.on('error') (lines 151-170): the process could not be spawned
EncoderError(p, written) ==
    /\ p \in DOMAIN encoders
    /\ ~encoders[p].error
    /\ encoders[p].close = "none"
    /\ LET unlinked == [saveVideo EXCEPT !.tempWebm = FALSE]
           failed == [encoders EXCEPT ![p].error = TRUE]
       IN IF encoders[p].useGPU
          THEN /\ saveVideo' = Fallback(unlinked, written)
               /\ encoders' = IF written THEN Append(failed, Spawn(FALSE))
                              ELSE failed
          ELSE /\ saveVideo' = Resolve(unlinked, Result(FALSE, "FFmpeg error"))
               /\ encoders' = failed
    /\ op' = "encoderError"
    /\ UNCHANGED <<nonUiVars, status, recordVars, exportPc, webmResult,
                   exports>>

\* ffmpeg.on('close') (lines 122-150); a process that could not be spawned
\* closes with a code other than 0
EncoderClose(p, code, written) ==
    /\ p \in DOMAIN encoders
    /\ encoders[p].close = "none"
    /\ encoders[p].error => code # 0
    /\ LET unlinked == [saveVideo EXCEPT !.tempWebm = FALSE]
           closed == [encoders EXCEPT
                        ![p].close = IF code = 0 THEN "ok" ELSE "failed"]
       IN IF code = 0
          THEN /\ saveVideo' = Resolve(unlinked, Result(TRUE, "path"))
               /\ encoders' = closed
          ELSE IF encoders[p].useGPU
          THEN /\ saveVideo' = Fallback(unlinked, written)
               /\ encoders' = IF written THEN Append(closed, Spawn(FALSE))
                              ELSE closed
          ELSE /\ saveVideo' = Resolve(unlinked, Result(FALSE, "FFmpeg failed"))
               /\ encoders' = closed
    /\ op' = "encoderClose"
    /\ UNCHANGED <<nonUiVars, status, recordVars, exportPc, webmResult,
                   exports>>

\* btnExport.onclick once save-video has answered (lines 267-279): done, or
\* the save-video-webm request, which opens its own dialog
ExportResumed ==
    /\ exportPc = "saveVideo"
    /\ saveVideo.result # Null
    /\ IF saveVideo.result.success
       THEN /\ status' = "Saved"
            /\ exportPc' = "idle"
            /\ buttons' = [buttons EXCEPT !.export = FALSE]
       ELSE /\ status' = "MP4 failed, saving as WebM"
            /\ exportPc' = "saveVideoWebM"
            /\ UNCHANGED buttons
    /\ op' = "exportResumed"
    /\ UNCHANGED <<nonUiVars, recordedBlob, startPending, stopCalls,
                   recordingInterval, recorder, mediaRecorders, saveVideo,
                   encoders, webmResult, exports>>

\* save-video-webm answers (index.js lines 179-199) and btnExport.onclick
\* ends (renderer.ts lines 280-294)
ExportWebmSettled(chosen, written) ==
    /\ exportPc = "saveVideoWebM"
    /\ webmResult' = IF ~chosen THEN Result(FALSE, "Canceled")
                     ELSE IF ~written THEN Result(FALSE, "Failed to save")
                     ELSE Result(TRUE, "path")
    /\ status' = IF chosen /\ written THEN "Saved as WebM"
                 ELSE "Export failed"
    /\ exportPc' = "idle"
    /\ buttons' = [buttons EXCEPT !.export = FALSE]
    /\ op' = "exportWebmSettled"
    /\ UNCHANGED <<nonUiVars, recordedBlob, startPending, stopCalls,
                   recordingInterval, recorder, mediaRecorders, saveVideo,
                   encoders, exports>>
----------------------------------------------------------------------------
(* FaceDetector3D (part_005).  The comparisons against fractions of the    *)
(* bounding box are made on both sides times 100, which keeps them exact;  *)
(* vertex indices start at 1.                                              *)

MinOf(S) == CHOOSE m \in S : \A n \in S : m <= n
MaxOf(S) == CHOOSE m \in S : \A n \in S : m >= n

\* positionAttr instanceof THREE.InterleavedBufferAttribute
IsInterleaved(positionAttr) == "interleaved" \in DOMAIN positionAttr

RECURSIVE SumCoord(_, _, _)
SumCoord(array, indices, axis) ==
    IF indices = <<>> THEN 0
    ELSE array[Head(indices)][axis] + SumCoord(array, Tail(indices), axis)

\* getVertexCenter(positions, indices)
getVertexCenter(array, indices) ==
    IF Len(indices) = 0 THEN [x |-> 0, y |-> 0, z |-> 0]
    ELSE [x |-> SumCoord(array, indices, "x") \div Len(indices),
          y |-> SumCoord(array, indices, "y") \div Len(indices),
          z |-> SumCoord(array, indices, "z") \div Len(indices)]

\* the vertices 1..n as the list that filter() walks
RECURSIVE Indices(_)
Indices(n) == IF n = 0 THEN <<>> ELSE Append(Indices(n - 1), n)

\* FaceDetector3D.analyzeGeometry
analyzeGeometry(positionAttr) ==
    IF IsInterleaved(positionAttr) THEN Null
    ELSE IF Len(positionAttr.array) = 0 THEN Null
    ELSE
    LET v == positionAttr.array
        vertexCount == Len(v)
        all == Indices(vertexCount)
        min == [x |-> MinOf({v[i].x : i \in DOMAIN v}),
                y |-> MinOf({v[i].y : i \in DOMAIN v}),
                z |-> MinOf({v[i].z : i \in DOMAIN v})]
        max == [x |-> MaxOf({v[i].x : i \in DOMAIN v}),
                y |-> MaxOf({v[i].y : i \in DOMAIN v}),
                z |-> MaxOf({v[i].z : i \in DOMAIN v})]
        \* twice the centre of the box
        center2 == [x |-> min.x + max.x, y |-> min.y + max.y,
                    z |-> min.z + max.z]
        sumZ == SumCoord(v, all, "z")
        isFrontPositiveZ == Abs(max.z * vertexCount - sumZ)
                              < Abs(min.z * vertexCount - sumZ)
        frontZ == IF isFrontPositiveZ THEN max.z ELSE min.z
        depth == max.z - min.z
        height == max.y - min.y
        width == max.x - min.x
        IsFront(i) == IF isFrontPositiveZ
                      THEN 100 * v[i].z > 100 * frontZ - 15 * depth
                      ELSE 100 * v[i].z < 100 * frontZ + 15 * depth
        frontVertices == SelectSeq(all, IsFront)
        BelowLowerThird(i) == 100 * v[i].y < 100 * min.y + 33 * height
        AboveUpperThird(i) == 100 * v[i].y > 100 * min.y + 66 * height
        \* |x - centerX| < width * f / 100, on both sides times 200
        Within(i, f) == Abs(2 * v[i].x - center2.x) * 100 < 2 * f * width
        IsMouth(i) == /\ BelowLowerThird(i)
                      /\ 100 * v[i].y > 100 * min.y + 10 * height
                      /\ Within(i, 25)
        IsJaw(i) == BelowLowerThird(i) /\ Within(i, 40)
        IsLeftEye(i) == /\ AboveUpperThird(i)
                        /\ 200 * v[i].x < 100 * center2.x - 20 * width
                        /\ 200 * v[i].x > 100 * center2.x - 70 * width
        IsRightEye(i) == /\ AboveUpperThird(i)
                         /\ 200 * v[i].x > 100 * center2.x + 20 * width
                         /\ 200 * v[i].x < 100 * center2.x + 70 * width
        IsNose(i) == /\ ~BelowLowerThird(i)
                     /\ 100 * v[i].y # 100 * min.y + 33 * height
                     /\ ~AboveUpperThird(i)
                     /\ 100 * v[i].y # 100 * min.y + 66 * height
                     /\ Within(i, 10)
        mouthVertices == SelectSeq(frontVertices, IsMouth)
    IN [mouthVertices |-> mouthVertices,
        jawVertices |-> SelectSeq(frontVertices, IsJaw),
        leftEyeVertices |-> SelectSeq(frontVertices, IsLeftEye),
        rightEyeVertices |-> SelectSeq(frontVertices, IsRightEye),
        noseVertices |-> SelectSeq(frontVertices, IsNose),
        mouthCenter |-> getVertexCenter(v, mouthVertices),
        jawPivot |-> [x |-> center2.x \div 2,
                      y |-> min.y + (5 * height) \div 100,
                      z |-> frontZ],
        headCenter |-> [x |-> center2.x \div 2, y |-> center2.y \div 2,
                        z |-> center2.z \div 2],
        bounds |-> [min |-> min, max |-> max]]

\* FaceDetector3D.detectFace(object); object.mesh is what findMainMesh
\* finds in it
detectFace(object) ==
    IF ~Truthy(object.mesh) THEN Null
    ELSE IF ~Truthy(object.mesh.position) THEN Null
    ELSE analyzeGeometry(object.mesh.position)

\* vertices of imported meshes: lips, forehead, an eye, the back of the
\* head and the chin
Points ==
    { [x |-> 0, y |-> -300, z |-> 100], [x |-> 0, y |-> 500, z |-> 100],
      [x |-> -200, y |-> 400, z |-> 100], [x |-> 0, y |-> 0, z |-> -100],
      [x |-> 100, y |-> -500, z |-> 0] }

RECURSIVE VertexLists(_)
VertexLists(n) ==
    IF n = 0 THEN { <<>> }
    ELSE VertexLists(n - 1)
           \cup { Append(l, p) : l \in { k \in VertexLists(n - 1) :
                                              Len(k) = n - 1 },
                                 p \in Points }

\* imported objects: without a mesh, with a mesh without positions, with
\* plain and with interleaved positions
Objects ==
    { [mesh |-> Null], [mesh |-> [position |-> Undefined]] }
      \cup { [mesh |-> [position |-> [array |-> l]]] :
                l \in VertexLists(MaxVertices) }
      \cup { [mesh |-> [position |-> [array |-> l, interleaved |-> TRUE]]] :
                l \in VertexLists(1) }

InitDetection == detection = Undefined

\* faceDetector.detectFace(object)
DetectFace(object) ==
    /\ detection' = [object |-> object, result |-> detectFace(object)]
    /\ op' = "detectFace"
    /\ UNCHANGED <<now, engineVars, obsVars, speechVars, aggVars, renderVars,
                   pipeVars, extVarsButDetection>>
----------------------------------------------------------------------------
(* Avatar3DRenderer (Avatar3DRenderer.ts): model loading and the updates   *)
(* of the model on stage.  Models are numbered in the order they are       *)
(* asked for; 0 is the default face.                                       *)

DefaultModel == [name |-> "DefaultFace", id |-> 0]

ZeroRotation == [x |-> 0, y |-> 0, z |-> 0]

\* the state the constructor leaves (lines 38-71): loadDefaultFace has run
InitAvatar3D ==
    avatar3D = [model |-> DefaultModel,
                landmarks |-> [model |-> 0, regions |-> [default |-> TRUE]],
                animatorModel |-> 0,
                loading |-> [pc |-> "idle"],
                loads |-> 0,
                lastRotation |-> ZeroRotation]

\* MorphTargetAnimator.applyHeadRotation
applyHeadRotationToMesh(an, rotation) ==
    IF ~Truthy(an.mesh) THEN an
    ELSE [an EXCEPT !.mesh.rotation = [x |-> (rotation.x * 5) \div 10,
                                        y |-> (rotation.y * 5) \div 10,
                                        z |-> (rotation.z * 3) \div 10]]

\* the objects the loaders deliver: heads with and without blend shapes and
\* a jaw, an object without a mesh, a mesh without positions, a mesh with
\* interleaved positions
ImportedObjects ==
    { [mesh |-> MeshOf(m, b)] :
        m \in BOOLEAN, b \in { <<>>, <<Bone("Head"), Bone("LowerJaw")>> } }
      \cup { [mesh |-> Null],
              [mesh |-> [MeshOf(FALSE, <<>>) EXCEPT !.position = Undefined]],
              [mesh |-> [MeshOf(FALSE, <<>>) EXCEPT
                           !.position = [array |-> HeadPositions.array,
                                         interleaved |-> TRUE]]] }

Extensions == {".glb", ".txt"}

\* loadModel(file) up to its await of the loader (lines 133-150); an
\* unsupported extension throws at once and the call returns false
LoadModel(ext, object) ==
    /\ avatar3D.loading.pc = "idle"
    /\ avatar3D.loads < MaxLoads
    /\ avatar3D' = [avatar3D EXCEPT
                      !.loads = avatar3D.loads + 1,
                      !.loading = IF ext = ".glb"
                                  THEN [pc |-> "loading", object |-> object,
                                        id |-> avatar3D.loads + 1]
                                  ELSE [pc |-> "idle"]]
    /\ op' = "loadModel"
    /\ UNCHANGED <<now, engineVars, obsVars, speechVars, aggVars, renderVars,
                   pipeVars, animVars, audioVars, initVars, recordVars,
                   exportVars, detection>>

\* the loader settles (lines 141-167): the old model leaves the scene, the
\* new one enters it, and detectFace is called on it
ModelLoaded(fulfilled) ==
    /\ avatar3D.loading.pc = "loading"
    /\ avatar3D' =
         IF fulfilled
         THEN [avatar3D EXCEPT
                 !.model = [name |-> "", id |-> avatar3D.loading.id,
                            object |-> avatar3D.loading.object],
                 !.loading.pc = "detecting"]
         ELSE [avatar3D EXCEPT !.loading = [pc |-> "idle"]]
    /\ op' = "modelLoaded"
    /\ UNCHANGED <<now, engineVars, obsVars, speechVars, aggVars, renderVars,
                   pipeVars, animVars, audioVars, initVars, recordVars,
                   exportVars, detection>>

\* detectFace settles (lines 167-199): the landmarks are stored and, when
\* there are some and a mesh is found, an animator is built
FaceDetected ==
    /\ avatar3D.loading.pc = "detecting"
    /\ LET object == avatar3D.loading.object
           found == detectFace(object)
       IN /\ detection' = [object |-> object, result |-> found]
          /\ IF Truthy(found) /\ Truthy(object.mesh)
             THEN /\ animator' = NewAnimator(object.mesh, found)
                  /\ lastApply' = Undefined
                  /\ avatar3D' = [avatar3D EXCEPT
                        !.landmarks = [model |-> avatar3D.loading.id,
                                       regions |-> found],
                        !.animatorModel = avatar3D.loading.id,
                        !.loading = [pc |-> "idle"]]
             ELSE /\ UNCHANGED animVars
                  /\ avatar3D' = [avatar3D EXCEPT
                        !.landmarks = IF Truthy(found)
                                      THEN [model |-> avatar3D.loading.id,
                                            regions |-> found]
                                      ELSE Null,
                        !.loading = [pc |-> "idle"]]
    /\ op' = "faceDetected"
    /\ UNCHANGED <<now, engineVars, obsVars, speechVars, aggVars, renderVars,
                   pipeVars, audioVars, initVars, recordVars, exportVars>>

Rotations == { ZeroRotation, [x |-> 200, y |-> -100, z |-> 100] }

\* Avatar3DRenderer.updateState(state) (lines 298-308)
UpdateState3D(rotation) ==
    /\ IF animator # Null
       THEN /\ animator' = applyHeadRotationToMesh(animator, rotation)
            /\ UNCHANGED <<lastApply, faceGroup>>
       ELSE IF avatar3D.model.name = "DefaultFace"
       THEN /\ faceGroup' = applyHeadRotation(faceGroup, rotation)
            /\ UNCHANGED animVars
       ELSE UNCHANGED <<animVars, faceGroup>>
    /\ avatar3D' = [avatar3D EXCEPT !.lastRotation = rotation]
    /\ op' = "updateState3D"
    /\ UNCHANGED <<now, engineVars, obsVars, speechVars, aggVars, renderVars,
                   lastResults, currentMode, audioVars, initVars, recordVars,
                   exportVars, detection>>

VisemeStates3D ==
    { [current |-> v, previous |-> "REST", transitionProgress |-> 1000000,
       intensity |-> 1000] : v \in {"REST", "AA", "E"} }
\* Avatar3DRenderer.updateViseme(visemeState) (lines 313-322)
UpdateViseme3D(visemeState) ==
    /\ IF animator # Null
       THEN /\ animator' = applyViseme(animator, visemeState).animator
            /\ lastApply' =
                  [current |-> visemeState.current,
                   intensity |-> visemeState.intensity,
                   strategy |-> applyViseme(animator, visemeState).strategy]
            /\ UNCHANGED faceGroup
       ELSE IF avatar3D.model.name = "DefaultFace"
       THEN /\ faceGroup' = animateMouth(faceGroup, visemeState.intensity)
            /\ UNCHANGED animVars
       ELSE UNCHANGED <<animVars, faceGroup>>
    /\ op' = "updateViseme3D"
    /\ UNCHANGED <<now, engineVars, obsVars, speechVars, aggVars, renderVars,
                   lastResults, currentMode, audioVars, initVars, recordVars,
                   exportVars, detection, avatar3D>>
----------------------------------------------------------------------------
(* Actions *)

\* the clock advances
Tick(d, limit) ==
    /\ now + d <= limit
    /\ now' = now + d
    /\ op' = "tick"
    /\ UNCHANGED <<extVars, engineVars, obsVars, speechVars, aggVars, renderVars, pipeVars>>

\* VisemeEngine.determineViseme(audioData)
DetermineViseme(a) ==
    /\ EngineStep(a)
    /\ Observe(a, VisemeResult(a))
    /\ op' = "determineViseme"
    /\ UNCHANGED <<extVars, now, speechVars, aggVars, renderVars, pipeVars>>

\* {volume 0.7, lowFreq 0.8, zeroCrossingRate 0.1} with any mid and high
\* band energy
LoudInputs ==
    { Features(70, 80, 0, 0, 10), Features(70, 80, 60, 60, 10) }

\* the vectors of the calls before: silence and a loud fricative
EarlierInputs ==
    { Features(4, 80, 60, 60, 70), Features(70, 0, 0, 60, 70) }

FeedSteps == {80}

\* feature vectors on which several rules of selectViseme match at once
SelectInputs ==
    { Features(4, 80, 60, 60, 70),     \* silent, hissing
      Features(8, 40, 0, 0, 10),       \* barely audible
      Features(70, 80, 0, 0, 10),      \* loud and bassy
      Features(70, 80, 60, 0, 10),     \* loud, bassy and rounded
      Features(70, 40, 60, 60, 70),    \* hissing and rounded
      Features(70, 40, 0, 60, 70),     \* hissing
      Features(45, 80, 60, 0, 10),     \* bassy and rounded, mid volume
      Features(45, 20, 60, 60, 10),    \* small rounded and bright
      Features(45, 40, 0, 60, 10),     \* bright, mid volume
      Features(45, 40, 0, 0, 10) }     \* plain, mid volume

\* determineViseme with the vectors the caller feeds
DetermineVisemeFed(a) ==
    /\ feed = "loud" => a \in LoudInputs
    /\ DetermineViseme(a)

\* from now on every call gets the loud bassy vector
FeedLoud ==
    /\ feed = "any"
    /\ feed' = "loud"
    /\ op' = "feedLoud"
    /\ UNCHANGED <<extVars, now, engineVars, ret, sinceChange, silentRun,
                   selected, speechVars, aggVars, renderVars, pipeVars>>

InitEngine ==
    /\ currentViseme = "REST"
    /\ previousViseme = "REST"
    /\ transitionProgress = 100
    /\ lastTransitionTime = 0
    /\ visemeHoldFrames = 0
    /\ volumeHistory = <<>>

InitObs ==
    /\ ret = [current |-> "REST", previous |-> "REST",
              transitionProgress |-> easeInOutCubic(100), intensity |-> 0]
    /\ sinceChange = 0
    /\ silentRun = 0
    /\ feed = "any"
    /\ selected = [undefined |-> TRUE]

Init ==
    /\ now = 0
    /\ InitEngine
    /\ InitObs
    /\ InitSpeech
    /\ InitAgg
    /\ InitRenderer
    /\ InitPipe
    /\ InitAnim
    /\ InitAudio
    /\ InitInit
    /\ InitRecording
    /\ InitExport
    /\ InitDetection
    /\ InitAvatar3D
    /\ op = "init"

NextViseme ==
    \/ \E d \in FineSteps : Tick(d, MaxClock)
    \/ \E a \in AudioInputs : DetermineViseme(a)

SpecViseme == Init /\ [][NextViseme]_vars

\* the engine fed arbitrary vectors and, from some call on, only the loud
\* bassy vector
NextFeed ==
    \/ \E d \in FeedSteps : Tick(d, MaxClock)
    \/ \E a \in EarlierInputs \cup LoudInputs : DetermineVisemeFed(a)
    \/ FeedLoud

\* the engine on vectors that several rules match
NextSelect ==
    \E a \in SelectInputs : DetermineViseme(a)

SpecSelect == Init /\ [][NextSelect]_vars

\* the render loop keeps calling determineViseme
SpecFeed ==
    Init /\ [][NextFeed]_vars
         /\ WF_vars(\E a \in LoudInputs : DetermineVisemeFed(a))

NextAgg ==
    \/ \E d \in CoarseSteps : Tick(d, MaxCoarseClock)
    \/ OnResult
    \/ \E a \in AnalyzerSamples, filler \in Fillers : GetState(a, filler)

SpecAgg == Init /\ [][NextAgg]_vars

\* the recognizer: its sessions, its result events and the aggregator
\* reading the speech flag
NextSpeech ==
    \/ \E d \in SpeechSteps : Tick(d, MaxSpeechClock)
    \/ SpeechStart
    \/ \E error \in BOOLEAN : RecognitionEnds(error)
    \/ OnEnd
    \/ OnResult
    \/ \E a \in SilentSamples, filler \in {"FV"} : GetState(a, filler)

SpecSpeech == Init /\ [][NextSpeech]_vars

\* the end event queued by the browser is dispatched
SpecSpeechLive == SpecSpeech /\ WF_vars(OnEnd)

\* the pipeline of renderer.ts: landmark frames, render ticks, mode switches
Next ==
    \/ \E results \in LandmarkFrames, a \in SilentSamples,
          filler \in Fillers : OnResults(results, a, filler)
    \/ Loop
    \/ \E mode \in Modes : SwitchMode(mode)

Spec == Init /\ [][Next]_vars

\* the tracker and its callback: frames with every pair of eye opennesses
NextTracker ==
    \/ \E results \in EyeFrames \cup {NoFace}, a \in SilentSamples,
          filler \in {"FV"} : OnResults(results, a, filler)
    \/ \E mode \in Modes : SwitchMode(mode)

SpecTracker == Init /\ [][NextTracker]_vars

\* the 2D renderer on its own
NextRender ==
    \/ \E newState \in RenderStates : UpdateState(newState)
    \/ Loop

SpecRender == Init /\ [][NextRender]_vars

\* one MorphTargetAnimator after another, each driven by visemes
NextAnim ==
    \/ \E mesh \in Meshes : ConstructAnimator(mesh)
    \/ \E visemeState \in VisemeStates : ApplyViseme(visemeState)

SpecAnim == Init /\ [][NextAnim]_vars

\* the AudioAnalyzer, its start() calls interleaved with the polling
NextAudio ==
    \/ \E c \in Calls, deviceId \in DeviceIds, canEnumerate \in BOOLEAN :
          Start(c, deviceId, canEnumerate)
    \/ \E c \in Calls, fulfilled \in BOOLEAN :
          EnumerateDevicesSettled(c, fulfilled)
    \/ \E c \in Calls, fulfilled \in BOOLEAN,
          contextState \in {"suspended", "running"} :
          GetUserMediaSettled(c, fulfilled, contextState)
    \/ \E c \in Calls, fulfilled \in BOOLEAN : ResumeSettled(c, fulfilled)
    \/ \E signal \in AnalyzerSamples : GetDetailedAnalysis(signal)

SpecAudio == Init /\ [][NextAudio]_vars

\* init() with the camera and the microphone it asks for
NextInit ==
    \/ \E canEnumerate \in BOOLEAN : InitRequest(canEnumerate)
    \/ \E fulfilled \in BOOLEAN : CameraSettled(fulfilled)
    \/ \E c \in Calls, fulfilled \in BOOLEAN :
          EnumerateDevicesSettled(c, fulfilled)
    \/ \E c \in Calls, fulfilled \in BOOLEAN,
          contextState \in {"suspended", "running"} :
          GetUserMediaSettled(c, fulfilled, contextState)
    \/ \E c \in Calls, fulfilled \in BOOLEAN : ResumeSettled(c, fulfilled)
    \/ InitPromiseAllSettled
    \/ \E fulfilled \in BOOLEAN : InitEnumerated(fulfilled)
    \/ \E c \in Calls, deviceId \in DeviceIds : AudioSelectChange(c, deviceId)
    \/ \E signal \in AnalyzerSamples : GetDetailedAnalysis(signal)

SpecInit == Init /\ [][NextInit]_vars

\* the recording buttons and the export of a recording
\* C30: the blob a stop() call is resolved with holds exactly the chunks
\* that the MediaRecorder of the most recent start() delivered, in the order
\* of their delivery
C30_BlobOfLatestRecorder ==
    \A r \in DOMAIN mediaRecorders :
        mediaRecorders[r].blob # Null =>
            mediaRecorders[r].blob.chunks = mediaRecorders[r].delivered
NextExport ==
    \/ StartClick
    \/ \E fulfilled \in BOOLEAN : StartResumed(fulfilled)
    \/ RecordingTick
    \/ StopClick
    \/ \E r \in 1..MaxRecorders : RecorderOnStop(r)
    \/ \E k \in 1..MaxPending : StopResumed(k)
    \/ ExportClick
    \/ \E chosen \in BOOLEAN, written \in BOOLEAN :
          SaveDialogSettled(chosen, written)
    \/ \E p \in EncoderIds, written \in BOOLEAN : EncoderError(p, written)
    \/ \E p \in EncoderIds, code \in {0, 1}, written \in BOOLEAN :
          EncoderClose(p, code, written)
    \/ ExportResumed
    \/ \E chosen \in BOOLEAN, written \in BOOLEAN :
          ExportWebmSettled(chosen, written)

SpecExport == Init /\ [][NextExport]_vars

\* the recording buttons with the chunks the MediaRecorders deliver
NextRecorder ==
    \/ StartClick
    \/ \E fulfilled \in BOOLEAN : StartResumed(fulfilled)
    \/ RecordingTick
    \/ StopClick
    \/ \E r \in 1..MaxRecorders : DataAvailable(r)
    \/ \E r \in 1..MaxRecorders : RecorderOnStop(r)
    \/ \E k \in 1..MaxPending : StopResumed(k)

SpecRecorder == Init /\ [][NextRecorder]_vars

\* the face detector on imported objects
NextDetect == \E object \in Objects : DetectFace(object)

SpecDetect == Init /\ [][NextDetect]_vars

\* the 3D renderer: model imports, pose updates and lip sync
Next3D ==
    \/ \E ext \in Extensions, object \in ImportedObjects :
          LoadModel(ext, object)
    \/ \E fulfilled \in BOOLEAN : ModelLoaded(fulfilled)
    \/ FaceDetected
    \/ \E rotation \in Rotations : UpdateState3D(rotation)
    \/ \E visemeState \in VisemeStates3D : UpdateViseme3D(visemeState)

Spec3D == Init /\ [][Next3D]_vars

----------------------------------------------------------------------------
(* Properties of VisemeEngine.determineViseme, checked under SpecViseme *)

Called == op' = "determineViseme"

\* C1: the returned `current` changes only on a call that comes at least 2
\* calls after the previous change (or after construction): the two calls
\* after a change, and the first two calls of a fresh engine, return the
\* same `current` whatever their input.
C1_HoldInvariant ==
    [][(Called /\ ret'.current # ret.current) => sinceChange >= 2]_vars

\* a viseme other than REST has been replaced by another one
C1_Witness ==
    /\ op = "determineViseme"
    /\ sinceChange = 0
    /\ ret.current # ret.previous
    /\ ret.previous # "REST"

\* C2: a call with volume < 0.05 made at least 2 calls after the last
\* adoption returns REST, and so does the third of three consecutive calls
\* with volume < 0.05.
C2_SilenceIsRest ==
    [][Called =>
         /\ (silentRun' > 0 /\ sinceChange >= 2) => ret'.current = "REST"
         /\ silentRun' >= 3 => ret'.current = "REST"]_vars

\* a quiet call has made the engine leave another viseme for REST
C2_Witness ==
    /\ op = "determineViseme"
    /\ silentRun > 0
    /\ sinceChange = 0
    /\ ret.current = "REST"
    /\ ret.previous # "REST"

\* C3: the returned transitionProgress does not decrease while `current`
\* stays the same, is 0 on a call that changes `current`, and does not go
\* back to 0 on a call that leaves `current` alone.
C3_ProgressMonotone ==
    [][Called =>
         /\ ret'.current = ret.current =>
                ret'.transitionProgress >= ret.transitionProgress
         /\ ret'.current # ret.current => ret'.transitionProgress = 0
         /\ (ret'.current = ret.current /\ ret.transitionProgress > 0) =>
                ret'.transitionProgress > 0]_vars

\* a call in the second half of a transition that is still under way
C3_Witness ==
    /\ op = "determineViseme"
    /\ sinceChange > 0
    /\ ret.transitionProgress > 500000
    /\ ret.transitionProgress < 1000000

\* C4: the returned `previous` changes only on a call on which `current`
\* changes, and then it is the `current` of the preceding call.
C4_PreviousFollowsCurrent ==
    [][(Called /\ ret'.previous # ret.previous) =>
         (ret'.current # ret.current /\ ret'.previous = ret.current)]_vars

\* `previous` has just become a viseme other than REST
C4_Witness ==
    /\ op = "determineViseme"
    /\ sinceChange = 0
    /\ ret.previous \in Viseme \ {"REST"}
    /\ ret.current # "REST"

----------------------------------------------------------------------------
(* Properties of the pipeline, checked under Spec *)

\* C7: a landmark frame without a face invokes no state callback: the
\* FaceState stored in AvatarStateEngine, the state held by the 2D renderer
\* and the pose of the 3D face stay what the last frame with a face made
\* them, and getState is not called.
C7_FacelessFrameKeepsState ==
    [][(op' = "onResults" /\ ~HasFace(lastResults')) =>
         UNCHANGED <<currentFaceState, state, faceGroup, finalState, agg,
                     engineVars>>]_vars

\* a faceless frame has arrived after a frame with a face
C7_Witness ==
    /\ op = "onResults"
    /\ ~HasFace(lastResults)
    /\ currentFaceState # DefaultFaceState
    /\ currentFaceState.eyes.blink
    /\ Truthy(state.viseme)

\* C8: every render tick invokes the Aggregator and hands the renderer the
\* AvatarState it produced on that tick.
C8_AggregatorPerTick ==
    [][op' = "loop" =>
         (agg'.parity # agg.parity /\ state' = finalState')]_vars

----------------------------------------------------------------------------
(* Properties of AvatarRenderer, checked under SpecRender *)

\* C9: after a render tick, if the latest state passed to updateState
\* carries a viseme the mouth on the canvas is a viseme mouth (the previous
\* shape at 1-progress and the current one at progress while progress < 1),
\* and the fallback mouth is drawn only when the state carries no viseme.
C9_VisemeMouthDrawn ==
    op = "loop" =>
       IF Truthy(state.viseme)
       THEN /\ drawn.mouth.kind = "viseme"
            /\ state.viseme.transitionProgress < 1000000 =>
                 drawn.mouth.shapes =
                    << [shape |-> state.viseme.previous,
                        alpha |-> 1000000 - state.viseme.transitionProgress],
                       [shape |-> state.viseme.current,
                        alpha |-> state.viseme.transitionProgress] >>
       ELSE drawn.mouth.kind = "fallback"

\* C28: a render tick made while the latest state handed to updateState
\* has eyes.blink = true draws both eyes closed, whatever the smoothed
\* openness of the eyes.
C28_BlinkDrawsClosedEyes ==
    (op = "loop" /\ state.eyes.blink) =>
        (drawn.leftEyeClosed /\ drawn.rightEyeClosed)
----------------------------------------------------------------------------
(* Properties of AvatarStateEngine.getState, checked under SpecAgg *)

\* C5: getState emits a viseme state other than the one determineViseme
\* returned on that call exactly when the engine returned REST, the speech
\* signal is true and volume < 0.05; the emitted viseme is then FV or O with
\* intensity 0.4, and the engine's own current, previous and hold counter
\* are those of its own result, untouched by the override.
C5_HybridOverride ==
    [][op' = "getState" =>
         LET overridden == finalState'.viseme # ret'
         IN /\ overridden <=>
                 (ret'.current = "REST" /\ agg'.speech /\ agg'.volume < 5)
            /\ overridden =>
                 /\ finalState'.viseme.current \in {"FV", "O"}
                 /\ finalState'.viseme.intensity = 400
            /\ currentViseme' = ret'.current
            /\ previousViseme' = ret'.previous
            /\ (overridden /\ ret'.current = ret.current) =>
                 visemeHoldFrames' >= visemeHoldFrames]_vars

\* the filler viseme has been emitted over the engine's REST
C5_Witness ==
    /\ op = "getState"
    /\ agg.speech
    /\ agg.volume < 5
    /\ ret.current = "REST"
    /\ finalState.viseme.current \in {"FV", "O"}
    /\ currentViseme = "REST"

\* C24: a getState call leaves the mouth of the stored FaceState as it was,
\* so that a later call at volume 0 returns the mouth the tracker delivered.
C24_StoredMouthUntouched ==
    [][op' = "getState" =>
         /\ currentFaceState'.mouth = currentFaceState.mouth
         /\ agg'.volume = 0 => finalState'.mouth = currentFaceState.mouth]_vars
----------------------------------------------------------------------------
(* Properties of MorphTargetAnimator.applyViseme, checked under SpecAnim *)

\* a morph target of the mesh is named, exactly or but for its case, by one
\* of the names morphMap lists for the viseme
MorphTargetMatches(mesh, viseme) ==
    /\ Truthy(mesh.morphTargetInfluences)
    /\ Truthy(mesh.morphTargetDictionary)
    /\ \E i \in DOMAIN mesh.morphTargetDictionary.entries,
          t \in DOMAIN morphMap(viseme) :
          toLowerCase(mesh.morphTargetDictionary.entries[i].key)
              = toLowerCase(morphMap(viseme)[t])

\* C6: every applyViseme call ends with the success of exactly one method,
\* the first that succeeds in the order morph targets, bone, vertex
\* deformation: when a morph target matches the viseme, neither the bones
\* nor the vertex positions are written, jaw bone or not; when none matches
\* and there is a jaw bone, the vertex positions are not written.
C6_OneStrategy ==
    [][op' = "applyViseme" =>
         LET matches == MorphTargetMatches(animator.mesh, lastApply'.current)
         IN /\ lastApply'.strategy =
                   IF matches THEN "morph"
                   ELSE IF animator.jawBone # 0 THEN "bone" ELSE "vertex"
            /\ matches =>
                   /\ animator'.mesh.bones = animator.mesh.bones
                   /\ animator'.mesh.position = animator.mesh.position
            /\ (~matches /\ animator.jawBone # 0) =>
                   animator'.mesh.position = animator.mesh.position
            /\ animator'.jawBone = animator.jawBone]_vars

\* the morph targets have just been used on a mesh whose jaw bone is still
\* turned by an earlier call that found no morph target
C6_Witness ==
    /\ op = "applyViseme"
    /\ lastApply.strategy = "morph"
    /\ animator.jawBone # 0
    /\ animator.mesh.bones[animator.jawBone].rotationX # 0
    /\ \E i \in DOMAIN animator.mesh.morphTargetInfluences.array :
          animator.mesh.morphTargetInfluences.array[i] = lastApply.intensity

\* C26: after any applyViseme calls on an animator its mesh shows the
\* effect of the method of the latest call only: the jaw bone is turned
\* only after the bone method, a morph influence is set only after the
\* morph targets, the vertices are off their original positions only after
\* vertex deformation.
C26_LatestStrategyOnly ==
    (animator # Null /\ lastApply # Undefined) =>
        /\ (lastApply.strategy # "bone" /\ animator.jawBone # 0) =>
               animator.mesh.bones[animator.jawBone].rotationX = 0
        /\ (lastApply.strategy # "morph"
              /\ Truthy(animator.mesh.morphTargetInfluences)) =>
               \A i \in DOMAIN animator.mesh.morphTargetInfluences.array :
                   animator.mesh.morphTargetInfluences.array[i] = 0
        /\ lastApply.strategy # "vertex" =>
               animator.mesh.position = HeadPositions
\* the animator's mesh has no blend shapes and no jaw bone, so that every
\* viseme is shown by vertex deformation
VertexOnly(an) ==
    /\ an # Null
    /\ ~Truthy(an.mesh.morphTargetDictionary)
    /\ an.jawBone = 0

\* C23: on a mesh animated by vertex deformation alone, the positions after
\* applyViseme are those a newly built animator would produce for the same
\* viseme and intensity; a call repeated changes nothing and a call with
\* REST puts every vertex back at its original position.
C23_DeformationFromOriginals ==
    [][(op' = "applyViseme" /\ VertexOnly(animator)) =>
         /\ animator'.mesh.position =
                applyViseme(NewAnimator(MeshOf(FALSE, animator.mesh.bones),
                                        animator.landmarks),
                            [current |-> lastApply'.current,
                             intensity |-> lastApply'.intensity]
                           ).animator.mesh.position
         /\ (lastApply # Undefined /\ lastApply.current = lastApply'.current
               /\ lastApply.intensity = lastApply'.intensity) =>
                animator'.mesh.position = animator.mesh.position
         /\ lastApply'.current = "REST" =>
                animator'.mesh.position = HeadPositions]_vars

\* REST has just been applied by vertex deformation
C23_Witness ==
    /\ op = "applyViseme"
    /\ VertexOnly(animator)
    /\ lastApply.strategy = "vertex"
    /\ lastApply.current = "REST"
    /\ animator.mesh.position = HeadPositions
----------------------------------------------------------------------------
(* Properties of the AudioAnalyzer, checked under SpecAudio *)

\* C10: getDetailedAnalysis returns the all-zero vector, and does not throw,
\* whenever no stream or no analyser is there and whenever no start() call
\* has succeeded yet: before any start(), while start() calls are pending,
\* after start() calls that failed.
C10_ZerosUntilStarted ==
    [][op' = "getDetailedAnalysis" =>
         ((\/ analyzer.stream = 0
           \/ analyzer.analyser = Null
           \/ \A c \in Calls : startCalls[c].pc # "done")
            => analysis' = ZeroFeatures)]_vars

\* the analyzer is polled after its first start() has failed with the
\* stream already acquired, and before any other start()
C10_Witness ==
    /\ op = "getDetailedAnalysis"
    /\ startCalls[1].pc = "failed"
    /\ \A c \in Calls : c > 1 => startCalls[c].pc = "idle"
    /\ analyzer.stream # 0
    /\ tracks[analyzer.stream]
    /\ analysis = ZeroFeatures

\* C11: whenever a start() call issues its getUserMedia request, the tracks
\* of the stream the analyzer holds at that moment have been stopped; a
\* start(deviceId) made while a stream is held issues its request within
\* the call itself.
C11_StopBeforeRequest ==
    [][\A c \in Calls :
         /\ (startCalls[c].pc # "getUserMedia"
               /\ startCalls'[c].pc = "getUserMedia"
               /\ analyzer.stream # 0) =>
                /\ ~tracks'[analyzer.stream]
                /\ analyzer'.stream = analyzer.stream
         /\ (op' = "start" /\ startCalls[c].pc = "idle"
               /\ startCalls'[c].pc # "idle"
               /\ startCalls'[c].deviceId # "") =>
                startCalls'[c].pc = "getUserMedia"]_vars

\* a later start(deviceId) has just asked for the new device while the
\* analyzer was listening to a stream it had acquired before
C11_Witness ==
    /\ op = "start"
    /\ analyzer.isListening
    /\ analyzer.stream # 0
    /\ ~tracks[analyzer.stream]
    /\ \E c \in Calls : /\ startCalls[c].pc = "getUserMedia"
                         /\ startCalls[c].deviceId # ""

\* C25: whenever no start() call is pending, every stream ever acquired,
\* other than the one the stream field refers to, has its tracks stopped.
C25_OneLiveCapture ==
    (\A c \in Calls : ~Pending(c)) =>
        \A s \in DOMAIN tracks : s # analyzer.stream => ~tracks[s]

----------------------------------------------------------------------------
(* Properties of init(), checked under SpecInit *)

\* C12: a start() that failed to acquire the microphone makes init end in
\* its error status: init never shows Ready when the start() call it made
\* has failed.
C12_FailureSurfaced ==
    startCalls[1].pc = "failed" => status # "Ready"

----------------------------------------------------------------------------
(* Properties of the export, checked under SpecExport *)

GpuFailed ==
    \E p \in DOMAIN encoders :
        encoders[p].useGPU /\ (encoders[p].error \/ encoders[p].close = "failed")

CpuFailed ==
    \E p \in DOMAIN encoders :
        ~encoders[p].useGPU /\ (encoders[p].error \/ encoders[p].close = "failed")

\* C13: the first encoder of an export is the hardware one; a software
\* encoder runs only when the hardware one has failed; save-video reports
\* an encoding failure only when the software encoder has failed too; and
\* the WebM save is requested only when both encoders have failed.
C13_EncodeOrder ==
    /\ encoders # <<>> => encoders[1].useGPU
    /\ (\E p \in DOMAIN encoders : ~encoders[p].useGPU) => GpuFailed
    /\ (saveVideo.result # Null
          /\ saveVideo.result.message \in {"FFmpeg failed", "FFmpeg error"}) =>
           (GpuFailed /\ CpuFailed)
    /\ exportPc = "saveVideoWebM" => (GpuFailed /\ CpuFailed)

\* a MediaRecorder that has been started and not stopped
Recording(r) ==
    /\ r \in DOMAIN mediaRecorders
    /\ mediaRecorders[r].state = "recording"

\* C29: the export button is disabled as long as a recording is in
\* progress, and no two recordings are in progress at once: Recorder.start
\* is not invoked while an earlier recording has not been stopped.
C29_ButtonsFollowRecording ==
    /\ (\E r \in 1..MaxRecorders : Recording(r)) => buttons.export
    /\ \A r, s \in 1..MaxRecorders : (Recording(r) /\ Recording(s)) => r = s
\* an ffmpeg process that has been spawned and has not ended
Running(p) ==
    /\ p \in DOMAIN encoders
    /\ ~encoders[p].error
    /\ encoders[p].close = "none"

\* C27: for one save-video request the software encoder is started at most
\* once, also when the hardware encoder emits both its events, and the
\* temporary input file is there as long as an encoder of the request is
\* running.
C27_OneFallbackOneResult ==
    /\ \A p, q \in DOMAIN encoders :
          (~encoders[p].useGPU /\ ~encoders[q].useGPU) => p = q
    /\ (\E p \in EncoderIds : Running(p)) => saveVideo.tempWebm
----------------------------------------------------------------------------
(* Properties of FaceDetector3D.detectFace, checked under SpecDetect *)

\* the vertices of the object's mesh, none when it has no mesh or no
\* position data
VerticesOf(object) ==
    IF Truthy(object.mesh) /\ Truthy(object.mesh.position)
    THEN object.mesh.position.array
    ELSE <<>>

\* no vertex lies within 15% of the depth from the frontmost one, at
\* either end of the z axis
NoneInFront(array) ==
    LET zs == {array[i].z : i \in DOMAIN array}
        depth == MaxOf(zs) - MinOf(zs)
    IN \A i \in DOMAIN array :
         /\ ~(100 * array[i].z > 100 * MaxOf(zs) - 15 * depth)
         /\ ~(100 * array[i].z < 100 * MinOf(zs) + 15 * depth)

\* C14: detectFace returns null for a mesh without position data or with
\* zero vertices; for a mesh with vertices none of which is within the
\* front threshold it returns landmarks whose five region lists are empty;
\* and it never returns null for a mesh with at least one vertex.
C14_NullOnlyWhenEmpty ==
    detection # Undefined =>
      LET array == VerticesOf(detection.object)
          result == detection.result
      IN /\ array = <<>> => result = Null
         /\ (array # <<>> /\ NoneInFront(array) /\ result # Null) =>
                /\ result.mouthVertices = <<>>
                /\ result.jawVertices = <<>>
                /\ result.leftEyeVertices = <<>>
                /\ result.rightEyeVertices = <<>>
                /\ result.noseVertices = <<>>
         /\ array # <<>> => result # Null

----------------------------------------------------------------------------
(* Properties of Avatar3DRenderer, checked under Spec3D *)

\* C15: every updateState call turns the model on stage by the rotation it
\* is given: the default face group, or the mesh of the imported model,
\* whether or not landmarks were detected on it.
C15_RotationApplied ==
    [][op' = "updateState3D" =>
         LET rotation == avatar3D'.lastRotation
         IN IF avatar3D.model.name = "DefaultFace"
            THEN faceGroup'.rotation = applyHeadRotation(faceGroup, rotation).rotation
            ELSE /\ animator' # Null
                 /\ avatar3D.animatorModel = avatar3D.model.id
                 /\ animator'.mesh.rotation =
                        applyHeadRotationToMesh(animator, rotation).mesh.rotation]_vars

\* C16: when no load is under way and an imported model is on stage, the
\* landmarks and the animator of the renderer are those of that model, or
\* there are none.
C16_AnimatorOfCurrentModel ==
    (avatar3D.loading.pc = "idle" /\ avatar3D.model.name # "DefaultFace") =>
        /\ animator = Null \/ avatar3D.animatorModel = avatar3D.model.id
        /\ avatar3D.landmarks = Null
              \/ avatar3D.landmarks.model = avatar3D.model.id

----------------------------------------------------------------------------
(* Properties of SpeechIntegrator, checked under SpecSpeech *)

\* C17: getIsSpeaking returns true exactly when a result event occurred at
\* most 300 ms before the call; it returns false before any result and
\* always when the browser has no speech recognition.
C17_SpeakingIffRecentResult ==
    [][op' = "getState" =>
         /\ agg'.speech <=> (lastResultAt >= 0 /\ now - lastResultAt <= 300)
         /\ ~recognition => ~agg'.speech]_vars

C17_Witness ==
    /\ op = "getState"
    /\ agg.speech
    /\ now - lastResultAt = 300

\* C18: whenever the recognition session has ended, on completion or after
\* an error, it is eventually running again.
C18_RestartsForever ==
    (recognizer.state = "ended") ~> (recognizer.state = "running")

C18_Witness ==
    /\ op = "onend"
    /\ recognizer.state = "running"
    /\ now > 0

----------------------------------------------------------------------------
(* Properties of VisemeEngine under a constant input, checked under SpecFeed *)

\* C19: once every call gets {volume 0.7, lowFreq 0.8, zeroCrossingRate
\* 0.1}, whatever the calls before, determineViseme eventually returns AA
\* with intensity 1.0 and does so on every call from then on.
C19_LoudFeedSettlesOnAA ==
    (feed = "loud") ~> [](ret.current = "AA" /\ ret.intensity = 1000)

C19_Witness ==
    /\ feed = "loud"
    /\ op = "determineViseme"
    /\ ret.current = "AA"
    /\ ret.previous = "MBP"
    /\ ret.intensity = 1000
    /\ silentRun = 0

----------------------------------------------------------------------------
(* Properties of FaceTracker, checked under SpecTracker *)

\* h / w < 0.20 for the eye between the four landmarks, without rounding
EyeBelowThreshold(top, bottom, left, right) ==
    5 * Abs(top.y - bottom.y) < Abs(left.x - right.x)

\* C20: the FaceState emitted for a frame with a face has blink = true
\* exactly when the openness of the left and of the right eye are both
\* below 0.20 in that frame; one eye below 0.20 alone gives blink = false.
C20_BlinkIffBothEyesClosed ==
    [][(op' = "onResults" /\ HasFace(lastResults')) =>
         LET landmarks == lastResults'.multiFaceLandmarks[1]
         IN currentFaceState'.eyes.blink <=>
              /\ EyeBelowThreshold(landmarks.p159, landmarks.p145,
                                   landmarks.p33, landmarks.p133)
              /\ EyeBelowThreshold(landmarks.p386, landmarks.p374,
                                   landmarks.p362, landmarks.p263)]_vars

C20_Witness ==
    /\ op = "onResults"
    /\ HasFace(lastResults)
    /\ currentFaceState.eyes.leftOpen < blinkThreshold
    /\ currentFaceState.eyes.rightOpen >= blinkThreshold
    /\ ~currentFaceState.eyes.blink

----------------------------------------------------------------------------
(* Properties of AvatarStateEngine behind the tracker, checked under      *)
(* SpecTracker                                                             *)

\* the emotion tags of AvatarState (part_002, line 12)
Emotions == {"neutral", "happy", "sad", "surprised", "thinking"}

\* C21: every AvatarState getState has returned carries one of the five
\* emotion tags, whatever face states the tracker has delivered.
C21_EmotionTagged ==
    finalState # Undefined => finalState.emotion \in Emotions

----------------------------------------------------------------------------
(* Properties of VisemeEngine.selectViseme, checked under SpecSelect *)

Rules == 1..9

\* the condition of the i-th rule of the list, on the vector and the history
\* that volumeChange is computed from
RuleMatches(i, a, hist) ==
    CASE i = 1 -> a.volume < 5
      [] i = 2 -> VolumeSpike(a, hist) /\ a.lowFreq > 60 /\ a.zeroCrossingRate < 30
      [] i = 3 -> a.zeroCrossingRate > 60 /\ a.highFreq > 50
      [] i = 4 -> a.volume > 60 /\ a.lowFreq > 50 /\ a.zeroCrossingRate < 40
      [] i = 5 -> a.volume > 40 /\ a.midFreq > 50 /\ a.lowFreq > 30
      [] i = 6 -> a.volume > 25 /\ a.volume < 50 /\ a.midFreq > 40
      [] i = 7 -> a.highFreq > 40 /\ a.volume > 30
      [] i = 8 -> a.volume > 10
      [] i = 9 -> TRUE

RuleViseme(i) ==
    CASE i = 1 -> "REST" [] i = 2 -> "MBP" [] i = 3 -> "FV" [] i = 4 -> "AA"
      [] i = 5 -> "O" [] i = 6 -> "U" [] i = 7 -> "E" [] i = 8 -> "AA"
      [] i = 9 -> "REST"

\* C22: selectViseme returns the viseme of the first rule that matches, in
\* the order silence, plosive, fricative, wide open, rounded, small rounded,
\* stretched, residual volume, rest.
C22_FirstMatchingRule ==
    selected # [undefined |-> TRUE] =>
        \E i \in Rules :
            /\ RuleMatches(i, selected.audioData, selected.hist)
            /\ \A j \in Rules :
                  j < i => ~RuleMatches(j, selected.audioData, selected.hist)
            /\ selected.viseme = RuleViseme(i)

C22_Witness ==
    /\ selected # [undefined |-> TRUE]
    /\ RuleMatches(4, selected.audioData, selected.hist)
    /\ RuleMatches(5, selected.audioData, selected.hist)
    /\ ~RuleMatches(2, selected.audioData, selected.hist)
    /\ selected.viseme = "AA"

====
